---------------------------- MODULE Spec2Model ----------------------------
(***************************************************************************)
(* A model of the JAPIRC chat server (src/JAPIRC_CLI.server.py): the login *)
(* and registration state machine, the session registry, the command       *)
(* dispatcher, the broadcast engine and the file transfer subsystem.       *)
(*                                                                         *)
(* Text is modelled as sequences of one-character strings, so that strip,  *)
(* split, lower, basename, join and abspath are computed as the code       *)
(* computes them.  Every thread of the server is a task: the login thread  *)
(* of a connection and the read loop it starts are one task per socket     *)
(* (the read loop starts when the login thread ends), the console is one   *)
(* task.  pc[t] is the position of task t in its code.                     *)
(***************************************************************************)
EXTENDS Integers, Sequences, FiniteSets, TLC

(***************************************************************************)
(* The connections, the console thread and the timer thread.  MaxLines     *)
(* bounds the number of command lines one task reads.  Connections are     *)
(* numbered from 1; an initial state fixes how many there are.             *)
(***************************************************************************)
MaxLines == 1

Console == 0
TimerThread == 9
NoTask == -1

\* the connections of a run with two clients, and of a run with three
TwoConnections == {1, 2}
ThreeConnections == {1, 2, 3}

(***************************************************************************)
(* Text helpers.                                                           *)
(***************************************************************************)
SP == " "

Lowercase ==
  [c \in {"A","B","C","D","E","F","G","H","I","J","K","L","M","N","O","P","Q",
          "R","S","T","U","V","W","X","Y","Z"} |->
     CASE c = "A" -> "a" [] c = "B" -> "b" [] c = "C" -> "c" [] c = "D" -> "d"
       [] c = "E" -> "e" [] c = "F" -> "f" [] c = "G" -> "g" [] c = "H" -> "h"
       [] c = "I" -> "i" [] c = "J" -> "j" [] c = "K" -> "k" [] c = "L" -> "l"
       [] c = "M" -> "m" [] c = "N" -> "n" [] c = "O" -> "o" [] c = "P" -> "p"
       [] c = "Q" -> "q" [] c = "R" -> "r" [] c = "S" -> "s" [] c = "T" -> "t"
       [] c = "U" -> "u" [] c = "V" -> "v" [] c = "W" -> "w" [] c = "X" -> "x"
       [] c = "Y" -> "y" [] c = "Z" -> "z"]

Lower(str) ==
  [i \in 1..Len(str) |->
     IF str[i] \in DOMAIN Lowercase THEN Lowercase[str[i]] ELSE str[i]]

Letters == DOMAIN Lowercase \cup {Lowercase[c] : c \in DOMAIN Lowercase}
Digits == {"0","1","2","3","4","5","6","7","8","9"}

IsAlnum(c) == c \in Letters \cup Digits

Whitespace == {" ", "\n", "\t", "\r"}

RECURSIVE LStrip(_)
LStrip(str) ==
  IF str # <<>> /\ Head(str) \in Whitespace THEN LStrip(Tail(str)) ELSE str

RECURSIVE RStrip(_)
RStrip(str) ==
  IF str # <<>> /\ str[Len(str)] \in Whitespace
  THEN RStrip(SubSeq(str, 1, Len(str) - 1))
  ELSE str

Strip(str) == RStrip(LStrip(str))

\* str.strip('"')
RECURSIVE StripQuotes(_)
StripQuotes(str) ==
  IF str # <<>> /\ Head(str) = "\""
  THEN StripQuotes(Tail(str))
  ELSE IF str # <<>> /\ str[Len(str)] = "\""
       THEN StripQuotes(SubSeq(str, 1, Len(str) - 1))
       ELSE str

\* Index of the first occurrence of character c in str, 0 when there is none.
RECURSIVE FindFrom(_, _, _)
FindFrom(str, c, i) ==
  IF i > Len(str) THEN 0
  ELSE IF str[i] = c THEN i ELSE FindFrom(str, c, i + 1)

Find(str, c) == FindFrom(str, c, 1)

\* str.split(c, maxsplit): at most maxsplit cuts; maxsplit < 0 is no limit.
RECURSIVE SplitMax(_, _, _)
SplitMax(str, c, maxsplit) ==
  LET i == Find(str, c) IN
    IF maxsplit = 0 \/ i = 0 THEN <<str>>
    ELSE <<SubSeq(str, 1, i - 1)>>
           \o SplitMax(SubSeq(str, i + 1, Len(str)), c, maxsplit - 1)

Split(str, c) == SplitMax(str, c, -1)

\* sub in str, for a sub of two characters
ContainsPair(str, a, b) ==
  \E i \in 1..(Len(str) - 1) : str[i] = a /\ str[i + 1] = b

RECURSIVE JoinWith(_, _)
JoinWith(parts, c) ==
  IF parts = <<>> THEN <<>>
  ELSE IF Len(parts) = 1 THEN parts[1]
  ELSE parts[1] \o <<c>> \o JoinWith(Tail(parts), c)

Range(f) == {f[i] : i \in DOMAIN f}

(***************************************************************************)
(* Server configuration.                                                   *)
(***************************************************************************)
SERVER_PASSWORD == <<"S","u","p","e","r","S","e","c","r","e","t">>

MaxUsernameLen == 18

(***************************************************************************)
(* Credentials.                                                            *)
(***************************************************************************)
hash_password(password) == <<"sha256", password>>

(***************************************************************************)
(* State.                                                                  *)
(***************************************************************************)
VARIABLES
  clients,            \* the registry dict {client_socket: username}, in insertion order
  user_credentials,   \* the dict username -> password hash
  ops,                \* the list of operator usernames
  saved_credentials,  \* contents of USER_CREDENTIALS_FILE
  saved_ops,          \* contents of OPS_FILE
  allow_registration, \* ALLOW_USER_AUTHENTICATION
  sock,               \* per connection: "unconnected", "open", "shutdown" or "closed"
  sent,               \* what the last step wrote to sockets: a set of [to, msg]
  pc,                 \* per task: its position
  username,           \* per connection: the local variable username of its task
  login_successful,   \* per connection: the local flag of handle_login
  bc,                 \* per task: the frame of the broadcast call it is in
  frame,              \* per task: the local variables of the command it handles
  fs,                 \* the file system: absolute path -> contents of the file
  wire,               \* per connection: what was written after a FILE_TRANSFER header
  server_socket,      \* "listening" or "closed"
  timer,              \* the threading.Timers started by /stop and /restart
  lock,               \* the task that holds the RLock, NoTask when it is free
  handled,            \* per task: the number of command lines it has read
  trace,              \* per connection: what handle_login received, state by state
  inbox,              \* per connection: what the peer sent and the read loop has not received
  receiver            \* the client program at the far end of a connection (see NoReceiver)

vars == <<clients, user_credentials, ops, saved_credentials, saved_ops,
          allow_registration, sock, sent, pc, username,
          login_successful, bc, frame, fs, wire, server_socket, timer, lock,
          handled, trace, inbox, receiver>>

\* the connections and the tasks of this run
Socks == DOMAIN sock
Tasks == Socks \cup {Console, TimerThread}

fileVars == <<fs, wire>>
serverVars == <<server_socket, timer, lock>>

\* a task reads one more command line
ReadsLine(t) ==
  /\ handled[t] < MaxLines
  /\ handled' = [handled EXCEPT ![t] = @ + 1]
storeVars == <<user_credentials, ops, saved_credentials, saved_ops, allow_registration>>

alice == <<"a","l","i","c","e">>
bob == <<"b","o","b">>
pwA == <<"p","w">>
pwB == <<"q">>

NoMsg == [tag |-> "none", user |-> <<>>, text |-> <<>>]
Msg(tag) == [tag |-> tag, user |-> <<>>, text |-> <<>>]
MsgU(tag, user) == [tag |-> tag, user |-> user, text |-> <<>>]
MsgUT(tag, user, text) == [tag |-> tag, user |-> user, text |-> text]

\* the frame of a call of broadcast: the message, the excluded socket, the clients
\* still to send to, disconnected_sockets, the clients whose send succeeded, and
\* where the caller goes on
NoBroadcast == [msg |-> NoMsg, sender |-> 0, todo |-> <<>>, failed |-> <<>>,
                delivered |-> <<>>, ret |-> "none"]

(***************************************************************************)
(* The registry.                                                           *)
(***************************************************************************)
ClientSockets == {clients[i].sock : i \in DOMAIN clients}
ClientUsernames == {clients[i].user : i \in DOMAIN clients}

InClients(s) == s \in ClientSockets

\* clients.keys() as a list
ClientKeys == [i \in DOMAIN clients |-> clients[i].sock]

\* variant: the pop leaves the registry as it is
Popped_Kept(reg, s) == reg

\* clients.pop(s, None)
Popped(reg, s) == SelectSeq(reg, LAMBDA e : e.sock # s)

\* for sock, user in clients.items(): if user == target: ...; break
FindSocketByUsername(u) ==
  LET hits == SelectSeq(clients, LAMBDA e : e.user = u)
  IN IF hits = <<>> THEN 0 ELSE hits[1].sock

(***************************************************************************)
(* Sockets.  A send succeeds only on a socket that is open at the server;   *)
(* it can fail at any time, because the peer can go away at any time.      *)
(***************************************************************************)
SendOutcome(s, ok) == ok => sock[s] = "open"

\* recv during the login phase returns a line, or times out, or the connection
\* is reset; Data(<<>>) is the end of the stream
Data(line) == [kind |-> "data", data |-> line]
Timeout == [kind |-> "timeout", data |-> <<>>]
Reset == [kind |-> "reset", data |-> <<>>]

Sent(s, m) == {[to |-> s, msg |-> m]}

\* The client program at the far end of a connection (src/JAPIRC_TUI.client.py):
\* stream is what the server wrote and the client has not read yet, pc the
\* position of the receiver thread ("recv": at the recv of
\* receive_messages_thread, "file": in the loop of handle_received_file),
\* file_size and bytes_received the locals of handle_received_file, saved the
\* contents of the file it writes, lines the bytes that the recv of
\* receive_messages_thread returned, first the length of its first read, shown
\* the lines handed to add_message by the default handling, listed the
\* username and the names of each FILE_LIST message; header, payload and rest
\* are what the server wrote, files the directory listing it wrote them from.
NoReceiver == [stream |-> <<>>, pc |-> "off", file_size |-> 0, bytes_received |-> 0,
               saved |-> <<>>, lines |-> <<>>, first |-> 0, shown |-> <<>>,
               listed |-> <<>>, header |-> <<>>, payload |-> <<>>, rest |-> <<>>,
               files |-> <<>>]

\* The transfer on a socket, in units of one file chunk (a message counts as one
\* unit): size is the size announced by the last FILE_TRANSFER header, file the
\* contents of the file when its size was looked up, own what handle_download
\* wrote after the header, data what a peer that reads size units after the
\* header gets, whoever wrote them, and broken says that a send of the
\* transfer failed.
NoTransfer == [size |-> -1, file |-> <<>>, own |-> <<>>, data |-> <<>>, broken |-> FALSE]

\* task t writes item to socket s
WireWritten(w, s, t, item) ==
  IF w[s].size >= 0 /\ Len(w[s].data) < w[s].size
  THEN [w EXCEPT ![s].data = Append(@, [by |-> t, item |-> item])]
  ELSE w

\* variant: a plain Lock, which its holder cannot take again
CanLock_NotReentrant(t) == lock = NoTask

\* with lock: the RLock is free or already held by this task
CanLock(t) == lock \in {NoTask, t}

(***************************************************************************)
(* handle_login.                                                           *)
(***************************************************************************)
is_valid_username(u) ==
  /\ u # <<>>
  /\ 1 <= Len(u) /\ Len(u) <= MaxUsernameLen
  /\ SP \notin Range(u)
  /\ \A i \in 1..Len(u) : IsAlnum(u[i]) \/ u[i] \in {"_", "-"}

\* len(password_parts) == 2 and password_parts[0] and password_parts[0] == password_parts[1]
registration_accepted(reg_password_input) ==
  LET password_parts == Split(reg_password_input, ":")
  IN /\ Len(password_parts) = 2
     /\ password_parts[1] # <<>>
     /\ password_parts[1] = password_parts[2]

\* variant: the duplicate-login guard finds nobody
already_logged_in_Nobody(u) == FALSE

\* username in clients.values()
already_logged_in(u) == u \in ClientUsernames

\* variant: any stored record passes, whatever the password
correct_password_AnyPassword(u, hashed_password) ==
  u \in DOMAIN user_credentials

\* user_credentials.get(username) == hashed_password
correct_password(u, hashed_password) ==
  u \in DOMAIN user_credentials /\ user_credentials[u] = hashed_password

\* the finally clause: the socket is closed unless login_successful is set; the
\* thread ends and its local variables with it
LoginEnds_SocketLeftOpen(s, successful) ==
  /\ pc' = [pc EXCEPT ![s] = "done"]
  /\ login_successful' = [login_successful EXCEPT ![s] = successful]
  /\ username' = [username EXCEPT ![s] = <<>>]
  /\ trace' = [trace EXCEPT ![s] = <<>>]
  /\ UNCHANGED sock

LoginEnds(s, successful) ==
  /\ pc' = [pc EXCEPT ![s] = "done"]
  /\ login_successful' = [login_successful EXCEPT ![s] = successful]
  /\ sock' = [sock EXCEPT ![s] = IF successful THEN @ ELSE "closed"]
  /\ username' = [username EXCEPT ![s] = <<>>]
  /\ trace' = [trace EXCEPT ![s] = <<>>]

\* trace[s] grows by one entry each time handle_login leaves a state for the next
Noted(s, st, r, ctx, ok) ==
  [trace EXCEPT ![s] = Append(@, [st |-> st, line |-> r.data, ctx |-> ctx,
                                   io |-> IF r.kind # "data" THEN r.kind
                                          ELSE IF ok THEN "ok" ELSE "send_failed"])]

\* server(): accept a connection and start handle_login, which sends the first prompt;
\* connections are numbered in the order in which they are accepted
Accept(s) ==
  /\ pc[s] = "unconnected"
  /\ \A o \in Socks : o < s => pc[o] # "unconnected"
  /\ server_socket = "listening"
  /\ sock' = [sock EXCEPT ![s] = "open"]
  /\ sent' = Sent(s, Msg("Enter server password: "))
  /\ pc' = [pc EXCEPT ![s] = "AwaitServerPassword"]
  /\ UNCHANGED <<clients, storeVars, username, login_successful, bc, frame,
                 fileVars, serverVars, handled, trace>>
  /\ UNCHANGED <<inbox, receiver>>

\* what the except clauses send before the finally clause runs
ErrorReply(r, text) ==
  IF r.kind = "timeout" THEN Msg("Timeout during login/registration. Connection closed.")
  ELSE Msg(text)

\* variant: the reply to a failed login goes to every connection
Replied_ToEveryone(s, r, ok, text) ==
  IF ok /\ r.kind # "reset" THEN {[to |-> x, msg |-> ErrorReply(r, text)] : x \in Socks} ELSE {}

\* the reply to a failed login is written unless the send fails or the connection was reset
Replied(s, r, ok, text) ==
  IF ok /\ r.kind # "reset" THEN Sent(s, ErrorReply(r, text)) ELSE {}

RecvServerPassword(s, r, ok) ==
  /\ pc[s] = "AwaitServerPassword"
  /\ SendOutcome(s, ok)
  /\ LET server_password_attempt == Strip(r.data)
     IN IF r.kind = "data" /\ server_password_attempt = SERVER_PASSWORD /\ ok
        THEN /\ pc' = [pc EXCEPT ![s] = "AwaitUsername"]
             /\ sent' = Sent(s, Msg("Server password OK. Enter username: "))
             /\ trace' = Noted(s, "AwaitServerPassword", r, {}, ok)
             /\ UNCHANGED <<sock, login_successful, username>>
        ELSE /\ LoginEnds(s, FALSE)
             /\ sent' = Replied(s, r, ok, "Incorrect server password.")
  /\ UNCHANGED <<clients, storeVars, bc, frame, fileVars, serverVars, handled>>
  /\ UNCHANGED <<inbox, receiver>>

RecvUsername(s, r, ok) ==
  /\ pc[s] = "AwaitUsername"
  /\ CanLock(s)
  /\ SendOutcome(s, ok)
  /\ LET u == Strip(r.data)
         user_exists == u \in DOMAIN user_credentials
         reject == IF ~is_valid_username(u)
                   THEN "Username invalid (1-18 chars, alphanumeric, _, -)."
                   ELSE IF already_logged_in(u) THEN "Username already logged in."
                   ELSE IF ~user_exists /\ ~allow_registration
                        THEN "User registration is not enabled on this server."
                        ELSE ""
     IN IF r.kind = "data" /\ reject = "" /\ ok
        THEN /\ username' = [username EXCEPT ![s] = u]
             /\ pc' = [pc EXCEPT ![s] = IF user_exists THEN "AwaitPassword"
                                        ELSE "AwaitRegistrationPasswordPair"]
             /\ sent' = Sent(s,
                          IF user_exists THEN Msg("Username OK. Enter password: ")
                          ELSE Msg("Username not found. Enter password in format 'new_password:new_password' to register: "))
             /\ trace' = Noted(s, "AwaitUsername", r, ClientUsernames, ok)
             /\ UNCHANGED <<sock, login_successful>>
        ELSE /\ LoginEnds(s, FALSE)
             /\ sent' = Replied(s, r, ok, reject)
  /\ UNCHANGED <<clients, storeVars, bc, frame, fileVars, serverVars, handled>>
  /\ UNCHANGED <<inbox, receiver>>

\* the existing-user branch: login_successful is set before "Login successful." is sent
RecvPassword(s, r, ok) ==
  /\ pc[s] = "AwaitPassword"
  /\ CanLock(s)
  /\ SendOutcome(s, ok)
  /\ LET password == Strip(r.data)
         hashed_password == hash_password(password)
     IN IF r.kind = "data" /\ correct_password(username[s], hashed_password)
        THEN IF ok
             THEN /\ pc' = [pc EXCEPT ![s] = "register_session"]
                  /\ login_successful' = [login_successful EXCEPT ![s] = TRUE]
                  /\ sent' = Sent(s, Msg("Login successful."))
                  /\ trace' = Noted(s, "AwaitPassword", r,
                                    {user_credentials[username[s]]}, ok)
                  /\ UNCHANGED <<sock, username>>
             ELSE /\ LoginEnds(s, TRUE)
                  /\ sent' = {}
        ELSE /\ LoginEnds(s, FALSE)
             /\ sent' = Replied(s, r, ok, "Incorrect password.")
  /\ UNCHANGED <<clients, storeVars, bc, frame, fileVars, serverVars, handled>>
  /\ UNCHANGED <<inbox, receiver>>

\* user_credentials[username] = hashed_new_password
Registered(creds, u, hashed_new_password) ==
  [v \in DOMAIN creds \cup {u} |-> IF v = u THEN hashed_new_password ELSE creds[v]]

\* the registration branch up to the write of user_credentials[username]
RecvRegistration(s, r, ok) ==
  /\ pc[s] = "AwaitRegistrationPasswordPair"
  /\ CanLock(s)
  /\ SendOutcome(s, ok)
  /\ LET reg_password_input == Strip(r.data)
         new_password == Split(reg_password_input, ":")[1]
     IN IF r.kind = "data" /\ registration_accepted(reg_password_input)
        THEN /\ ok
             /\ user_credentials' = Registered(user_credentials, username[s],
                                               hash_password(new_password))
             /\ pc' = [pc EXCEPT ![s] = "save_credentials"]
             /\ trace' = Noted(s, "AwaitRegistrationPasswordPair", r,
                               DOMAIN user_credentials, ok)
             /\ sent' = {}
             /\ UNCHANGED <<sock, login_successful, username>>
        ELSE /\ LoginEnds(s, FALSE)
             /\ sent' = Replied(s, r, ok, "Invalid registration password format or passwords do not match.")
             /\ UNCHANGED user_credentials
  /\ UNCHANGED <<clients, ops, saved_credentials, saved_ops, allow_registration,
                 bc, frame, fileVars, serverVars, handled>>
  /\ UNCHANGED <<inbox, receiver>>

\* save_credentials(user_credentials), then login_successful = True and the send
SaveCredentials(s, ok) ==
  /\ pc[s] = "save_credentials"
  /\ CanLock(s)
  /\ SendOutcome(s, ok)
  /\ saved_credentials' = user_credentials
  /\ IF ok
     THEN /\ pc' = [pc EXCEPT ![s] = "register_session"]
          /\ login_successful' = [login_successful EXCEPT ![s] = TRUE]
          /\ sent' = Sent(s, Msg("Registration successful."))
          /\ UNCHANGED <<sock, username, trace>>
     ELSE /\ LoginEnds(s, TRUE)
          /\ sent' = {}
  /\ UNCHANGED <<clients, user_credentials, ops, saved_ops, allow_registration,
                 bc, frame, fileVars, serverVars, handled>>
  /\ UNCHANGED <<inbox, receiver>>

\* variant: the entry is written without the lock
RegisterSession_Unlocked(s) ==
  /\ pc[s] = "register_session"
  /\ clients' = Append(clients, [sock |-> s, user |-> username[s]])
  /\ pc' = [pc EXCEPT ![s] = "welcome"]
  /\ sent' = {}
  /\ UNCHANGED <<storeVars, sock, username, login_successful, bc,
                 frame, fileVars, serverVars, handled, trace>>
  /\ UNCHANGED <<inbox, receiver>>

\* with lock: clients[client_socket] = username
RegisterSession(s) ==
  /\ pc[s] = "register_session"
  /\ CanLock(s)
  /\ clients' = Append(clients, [sock |-> s, user |-> username[s]])
  /\ pc' = [pc EXCEPT ![s] = "welcome"]
  /\ sent' = {}
  /\ UNCHANGED <<storeVars, sock, username, login_successful, bc,
                 frame, fileVars, serverVars, handled, trace>>
  /\ UNCHANGED <<inbox, receiver>>

\* variant: the read loop is started without the join broadcast
JoinBroadcast_ThreadStartedFirst(s) ==
  /\ pc' = [pc EXCEPT ![s] = "recv"]
  /\ UNCHANGED <<bc, sock, login_successful, username, trace>>

\* the call broadcast(join_msg, client_socket); when it returns, handle_login starts
\* the read loop (client_thread.start()) and ends
JoinBroadcast(s) ==
  /\ bc' = [bc EXCEPT ![s] = [msg |-> MsgU("has joined the chat!", username[s]),
                              sender |-> s, todo |-> <<>>, failed |-> <<>>,
                              delivered |-> <<>>,
                              ret |-> "recv"]]
  /\ pc' = [pc EXCEPT ![s] = "broadcast"]
  /\ UNCHANGED <<sock, login_successful, username, trace>>

\* an exception after the session was registered: login_successful is set, so the
\* finally clause closes nothing, and nothing removes the entry from clients
LoginBreaks(s) ==
  /\ pc' = [pc EXCEPT ![s] = "done"]
  /\ sent' = {}
  /\ UNCHANGED <<bc, sock, login_successful, username, trace>>

\* the welcome line, then with lock: is_op = username in ops
SendWelcome(s, ok) ==
  /\ pc[s] = "welcome"
  /\ CanLock(s)
  /\ SendOutcome(s, ok)
  /\ IF ok
     THEN /\ sent' = Sent(s, MsgU("Welcome", username[s]))
          /\ IF username[s] \in Range(ops)
             THEN /\ pc' = [pc EXCEPT ![s] = "op_notice"]
                  /\ UNCHANGED <<bc, sock, login_successful, username, trace>>
             ELSE JoinBroadcast(s)
     ELSE LoginBreaks(s)
  /\ UNCHANGED <<clients, storeVars, frame, fileVars, serverVars, handled>>
  /\ UNCHANGED <<inbox, receiver>>

SendOperatorNotice(s, ok) ==
  /\ pc[s] = "op_notice"
  /\ SendOutcome(s, ok)
  /\ IF ok
     THEN /\ sent' = Sent(s, Msg("You are logged in as an Operator."))
          /\ JoinBroadcast(s)
     ELSE LoginBreaks(s)
  /\ UNCHANGED <<clients, storeVars, frame, fileVars, serverVars, handled>>
  /\ UNCHANGED <<inbox, receiver>>

(***************************************************************************)
(* broadcast(message, sender_socket).  A caller sets up the call with      *)
(* Broadcasting; the call then runs in three kinds of step.                *)
(***************************************************************************)
Broadcasting(t, message, sender_socket, ret) ==
  [bc EXCEPT ![t] = [msg |-> message, sender |-> sender_socket, todo |-> <<>>,
                     delivered |-> <<>>,
                     failed |-> <<>>, ret |-> ret]]

\* with lock: current_clients = list(clients.keys()); with nobody to send to,
\* the loop and the cleanup do nothing and the call returns
BroadcastSnapshot(t) ==
  /\ pc[t] = "broadcast"
  /\ CanLock(t)
  /\ LET current_clients == SelectSeq(ClientKeys, LAMBDA c : c # bc[t].sender)
     IN IF current_clients = <<>>
        THEN /\ pc' = [pc EXCEPT ![t] = bc[t].ret]
             /\ bc' = [bc EXCEPT ![t] = NoBroadcast]
        ELSE /\ pc' = [pc EXCEPT ![t] = "broadcast_send"]
             /\ bc' = [bc EXCEPT ![t].todo = current_clients]
  /\ sent' = {}
  /\ UNCHANGED <<clients, storeVars, sock, username, login_successful,
                 frame, fileVars, serverVars, handled, trace>>
  /\ UNCHANGED <<inbox, receiver>>

\* variant: the first send that fails ends the call
BroadcastSend_AbortOnFailure(t, ok) ==
  /\ pc[t] = "broadcast_send"
  /\ bc[t].todo # <<>>
  /\ LET client == Head(bc[t].todo)
         failed == IF ok THEN bc[t].failed ELSE Append(bc[t].failed, client)
     IN /\ SendOutcome(client, ok)
        /\ ~ok => CanLock(t)
        /\ sent' = IF ok THEN Sent(client, bc[t].msg) ELSE {}
        /\ wire' = IF ok THEN WireWritten(wire, client, t, bc[t].msg.tag) ELSE wire
        /\ IF ~ok \/ (Tail(bc[t].todo) = <<>> /\ failed = <<>>)
           THEN /\ pc' = [pc EXCEPT ![t] = bc[t].ret]
                /\ bc' = [bc EXCEPT ![t] = NoBroadcast]
           ELSE /\ bc' = [bc EXCEPT ![t].todo = Tail(@), ![t].failed = failed,
                                     ![t].delivered = IF ok THEN Append(@, client) ELSE @]
                /\ UNCHANGED pc
  /\ UNCHANGED <<clients, storeVars, sock, username, login_successful,
                 frame, fs, serverVars, handled, trace>>
  /\ UNCHANGED <<inbox, receiver>>

\* one iteration of the send loop: client.sendall(message), a failure marks the
\* client; after the last iteration the call returns if no client is marked
BroadcastSend(t, ok) ==
  /\ pc[t] = "broadcast_send"
  /\ bc[t].todo # <<>>
  /\ LET client == Head(bc[t].todo)
         failed == IF ok THEN bc[t].failed ELSE Append(bc[t].failed, client)
     IN /\ SendOutcome(client, ok)
        /\ ~ok => CanLock(t)
        /\ sent' = IF ok THEN Sent(client, bc[t].msg) ELSE {}
        /\ wire' = IF ok THEN WireWritten(wire, client, t, bc[t].msg.tag) ELSE wire
        /\ IF Tail(bc[t].todo) = <<>> /\ failed = <<>>
           THEN /\ pc' = [pc EXCEPT ![t] = bc[t].ret]
                /\ bc' = [bc EXCEPT ![t] = NoBroadcast]
           ELSE /\ bc' = [bc EXCEPT ![t].todo = Tail(@), ![t].failed = failed,
                                     ![t].delivered = IF ok THEN Append(@, client) ELSE @]
                /\ UNCHANGED pc
  /\ UNCHANGED <<clients, storeVars, sock, username, login_successful,
                 frame, fs, serverVars, handled, trace>>
  /\ UNCHANGED <<inbox, receiver>>

RECURSIVE AllPopped(_, _)
AllPopped(reg, socks) ==
  IF socks = <<>> THEN reg ELSE AllPopped(Popped(reg, Head(socks)), Tail(socks))

\* variant: the marked sockets are forgotten
BroadcastCleanup_NothingRemoved(t) ==
  /\ pc[t] = "broadcast_send"
  /\ bc[t].todo = <<>>
  /\ CanLock(t)
  /\ UNCHANGED <<clients, sock>>
  /\ pc' = [pc EXCEPT ![t] = bc[t].ret]
  /\ bc' = [bc EXCEPT ![t] = NoBroadcast]
  /\ sent' = {}
  /\ UNCHANGED <<storeVars, username, login_successful, frame,
                 fileVars, serverVars, handled, trace>>
  /\ UNCHANGED <<inbox, receiver>>

\* the cleanup of disconnected_sockets under the lock, and the return
BroadcastCleanup(t) ==
  /\ pc[t] = "broadcast_send"
  /\ bc[t].todo = <<>>
  /\ CanLock(t)
  /\ clients' = AllPopped(clients, bc[t].failed)
  /\ sock' = [s \in Socks |-> IF s \in Range(bc[t].failed) THEN "closed" ELSE sock[s]]
  /\ pc' = [pc EXCEPT ![t] = bc[t].ret]
  /\ bc' = [bc EXCEPT ![t] = NoBroadcast]
  /\ sent' = {}
  /\ UNCHANGED <<storeVars, username, login_successful, frame,
                 fileVars, serverVars, handled, trace>>
  /\ UNCHANGED <<inbox, receiver>>

(***************************************************************************)
(* handle_client: the read loop.                                           *)
(***************************************************************************)
\* recv returns no data or raises: the peer closed or the connection broke (at
\* any time), or the socket was shut down and closed by a kick, a broadcast
\* cleanup or a shutdown
ReadLoopEnds(s) ==
  /\ pc[s] = "recv"
  /\ pc' = [pc EXCEPT ![s] = "cleanup"]
  /\ sent' = {}
  /\ UNCHANGED <<clients, storeVars, sock, username, login_successful,
                 bc, frame, fileVars, serverVars, handled, trace>>
  /\ UNCHANGED <<inbox, receiver>>

\* a line is there to be read by the loop of s
CanRecv_WhileBusy(s) == sock[s] = "open" /\ inbox[s] = <<>>

CanRecv(s) == pc[s] = "recv" /\ sock[s] = "open" /\ inbox[s] = <<>>

\* command = msg_content.split(" ", 1)[0].lower()
CommandOf(line) == Lower(SplitMax(Strip(line), SP, 1)[1])

IsCommand(line) == Strip(line) # <<>> /\ Head(Strip(line)) = "/"

ExitCommand(s, line) ==
  /\ CanRecv(s)
  /\ IsCommand(line)
  /\ CommandOf(line) = <<"/","e","x","i","t">>
  /\ pc' = [pc EXCEPT ![s] = "cleanup"]
  /\ sent' = {}
  /\ UNCHANGED <<clients, storeVars, sock, username, login_successful,
                 bc, frame, fileVars, serverVars, handled, trace>>
  /\ UNCHANGED <<inbox, receiver>>

\* variant: the entry is removed and nobody is told
Cleanup_NoLeaveNotice(s) ==
  /\ pc[s] = "cleanup"
  /\ CanLock(s)
  /\ clients' = Popped(clients, s)
  /\ pc' = [pc EXCEPT ![s] = "close"]
  /\ sent' = {}
  /\ UNCHANGED <<storeVars, sock, username, login_successful, bc, frame,
                 fileVars, serverVars, handled, trace>>
  /\ UNCHANGED <<inbox, receiver>>

\* Disconnection cleanup: pop under the lock, then the leave broadcast
\* variant: the read loop announces the departure whether or not it found its entry
Cleanup_AlwaysNotifies(s) ==
  /\ pc[s] = "cleanup"
  /\ CanLock(s)
  /\ clients' = Popped(clients, s)
  /\ bc' = Broadcasting(s, MsgU("has left the chat.", username[s]), 0, "close")
  /\ pc' = [pc EXCEPT ![s] = "broadcast"]
  /\ sent' = {}
  /\ UNCHANGED <<storeVars, sock, username, login_successful, frame,
                 fileVars, serverVars, handled, trace>>
  /\ UNCHANGED <<inbox, receiver>>

Cleanup(s) ==
  /\ pc[s] = "cleanup"
  /\ CanLock(s)
  /\ IF InClients(s)
     THEN /\ clients' = Popped(clients, s)
          /\ bc' = Broadcasting(s, MsgU("has left the chat.", username[s]), 0, "close")
          /\ pc' = [pc EXCEPT ![s] = "broadcast"]
     ELSE /\ pc' = [pc EXCEPT ![s] = "close"]
          /\ UNCHANGED <<clients, bc>>
  /\ sent' = {}
  /\ UNCHANGED <<storeVars, sock, username, login_successful, frame,
                 fileVars, serverVars, handled, trace>>
  /\ UNCHANGED <<inbox, receiver>>

\* client_socket.shutdown(socket.SHUT_RDWR); client_socket.close()
CloseSocket(s) ==
  /\ pc[s] = "close"
  /\ sock' = [sock EXCEPT ![s] = "closed"]
  /\ pc' = [pc EXCEPT ![s] = "done"]
  /\ username' = [username EXCEPT ![s] = <<>>]
  /\ trace' = [trace EXCEPT ![s] = <<>>]
  /\ sent' = {}
  /\ UNCHANGED <<clients, storeVars, login_successful, bc,
                 frame, fileVars, serverVars, handled>>
  /\ UNCHANGED <<inbox, receiver>>

(***************************************************************************)
(* console_commands.                                                       *)
(***************************************************************************)
KICK == <<"/","k","i","c","k">>

\* parts = command_input.split(" ", 2)
ConsoleParts(command_input) == SplitMax(Strip(command_input), SP, 2)

\* /kick <username> [reason] typed at the console: everything up to the pop and the
\* close runs under the lock; the broadcast follows
ConsoleKick(command_input, ok) ==
  /\ pc[Console] = "console"
  /\ CanLock(Console)
  /\ ReadsLine(Console)
  /\ LET parts == ConsoleParts(command_input)
         username_to_kick == parts[2]
         target_socket_kick == FindSocketByUsername(username_to_kick)
     IN /\ Lower(parts[1]) = KICK
        /\ IF Len(parts) >= 2 /\ target_socket_kick # 0
           THEN /\ SendOutcome(target_socket_kick, ok)
                /\ sent' = IF ok THEN Sent(target_socket_kick,
                                              MsgU("You have been kicked", <<"C">>))
                           ELSE {}
                /\ wire' = IF ok THEN WireWritten(wire, target_socket_kick, Console,
                                                    "You have been kicked")
                           ELSE wire
                /\ clients' = Popped(clients, target_socket_kick)
                /\ sock' = [sock EXCEPT ![target_socket_kick] = "closed"]
                /\ bc' = Broadcasting(Console, MsgU("was kicked", username_to_kick), 0, "console")
                /\ pc' = [pc EXCEPT ![Console] = "broadcast"]
                /\ frame' = [frame EXCEPT ![Console].cmd = KICK,
                                          ![Console].target = username_to_kick,
                                          ![Console].failed = ~ok]
           ELSE /\ ok
                /\ sent' = {} /\ UNCHANGED <<wire, clients, sock, bc, pc, frame>>
  /\ UNCHANGED <<storeVars, username, login_successful, fs,
                 serverVars, trace>>
  /\ UNCHANGED <<inbox, receiver>>

(***************************************************************************)
(* Paths, as os.path computes them on a POSIX system.                      *)
(***************************************************************************)
SEP == "/"

\* the working directory of the server process
CWD == <<"/","s","r","v">>

FILE_DIRECTORY ==
  <<"u","s","e","r","_","u","p","l","o","a","d","e","d","_","f","i","l","e","s">>

USER_CREDENTIALS_FILE ==
  <<"u","s","e","r","_","c","r","e","d","e","n","t","i","a","l","s",".","j","s","o","n">>

invalid_chars == {"/", "\\", ":", "*", "?", "\"", "<", ">", "|"}

DOTDOT == <<".", ".">>

isabs(path) == path # <<>> /\ Head(path) = SEP

\* os.path.join(a, b)
join(a, b) ==
  IF isabs(b) THEN b
  ELSE IF a = <<>> \/ a[Len(a)] = SEP THEN a \o b
  ELSE a \o <<SEP>> \o b

\* os.path.basename(path)
basename(path) == LET comps == Split(path, SEP) IN comps[Len(comps)]

\* the loop of os.path.normpath over the components of a path
RECURSIVE new_comps(_, _, _)
new_comps(comps, acc, initial_slashes) ==
  IF comps = <<>> THEN acc
  ELSE LET comp == Head(comps) IN
    IF comp = <<>> \/ comp = <<".">> THEN new_comps(Tail(comps), acc, initial_slashes)
    ELSE IF \/ comp # DOTDOT
            \/ (initial_slashes = 0 /\ acc = <<>>)
            \/ (acc # <<>> /\ acc[Len(acc)] = DOTDOT)
         THEN new_comps(Tail(comps), Append(acc, comp), initial_slashes)
         ELSE IF acc # <<>>
              THEN new_comps(Tail(comps), SubSeq(acc, 1, Len(acc) - 1), initial_slashes)
              ELSE new_comps(Tail(comps), acc, initial_slashes)

\* os.path.normpath(path)
normpath(path) ==
  LET initial_slashes ==
        IF ~isabs(path) THEN 0
        ELSE IF Len(path) >= 2 /\ path[2] = SEP /\ ~(Len(path) >= 3 /\ path[3] = SEP)
             THEN 2 ELSE 1
      body == JoinWith(new_comps(Split(path, SEP), <<>>, initial_slashes), SEP)
      whole == [i \in 1..initial_slashes |-> SEP] \o body
  IN IF path = <<>> \/ whole = <<>> THEN <<".">> ELSE whole

\* os.path.abspath(path)
abspath(path) == normpath(IF isabs(path) THEN path ELSE join(CWD, path))

\* str.startswith(prefix)
startswith(str, prefix) ==
  Len(prefix) <= Len(str) /\ SubSeq(str, 1, Len(prefix)) = prefix

\* ".." in filename or any(char in filename for char in invalid_chars)
invalid_filename(filename) ==
  \/ ContainsPair(filename, ".", ".")
  \/ \E i \in 1..Len(filename) : filename[i] \in invalid_chars

(***************************************************************************)
(* The file system: fs.files maps the absolute path of a regular file to   *)
(* its contents, a sequence of chunks; fs.dirs is the set of directories.  *)
(* There are no symbolic links.                                            *)
(***************************************************************************)
NoPath == <<>>

Rendered(comps) == <<SEP>> \o JoinWith(comps, SEP)

\* The kernel's walk along a path: the absolute path it arrives at, NoPath when
\* a component that is walked through is not a directory.
RECURSIVE Walked(_, _, _)
Walked(fsys, at, comps) ==
  IF comps = <<>> THEN Rendered(at)
  ELSE LET comp == Head(comps) IN
    IF comp = <<>> \/ comp = <<".">> THEN Walked(fsys, at, Tail(comps))
    ELSE IF comp = DOTDOT
         THEN Walked(fsys, IF at = <<>> THEN at ELSE SubSeq(at, 1, Len(at) - 1), Tail(comps))
         ELSE IF Tail(comps) # <<>> /\ Rendered(Append(at, comp)) \notin fsys.dirs
              THEN NoPath
              ELSE Walked(fsys, Append(at, comp), Tail(comps))

Lookup(fsys, path) ==
  Walked(fsys, IF isabs(path) THEN <<>> ELSE Tail(Split(CWD, SEP)), Split(path, SEP))

\* os.path.isfile, os.path.isdir, os.path.exists
isfile(fsys, path) == Lookup(fsys, path) \in DOMAIN fsys.files
isdir(fsys, path) == Lookup(fsys, path) \in fsys.dirs
exists(fsys, path) == isfile(fsys, path) \/ isdir(fsys, path)

\* os.path.dirname of an absolute path
dirname(path) ==
  LET comps == Split(path, SEP)
      head == JoinWith(SubSeq(comps, 1, Len(comps) - 1), SEP)
  IN IF head = <<>> THEN <<SEP>> ELSE head

\* [f for f in os.listdir(user_dir) if os.path.isfile(os.path.join(user_dir, f)) and f]
ListedFiles(fsys, user_dir) ==
  {basename(f) : f \in {g \in DOMAIN fsys.files : dirname(g) = Lookup(fsys, user_dir)}}

\* os.listdir returns the names in an arbitrary order
Orders(names) == {q \in [1..Cardinality(names) -> names] : Range(q) = names}

\* os.makedirs(user_dir, exist_ok=True), below an existing directory
MadeDir(fsys, user_dir) == [fsys EXCEPT !.dirs = @ \cup {abspath(user_dir)}]

\* os.remove(path)
Removed(fsys, path) ==
  [fsys EXCEPT !.files = [f \in DOMAIN fsys.files \ {path} |-> fsys.files[f]]]

\* open(path, "wb"): the file is created, or truncated when it is there
Truncated(fsys, path) ==
  [fsys EXCEPT !.files = [f \in DOMAIN fsys.files \cup {path} |->
                            IF f = path THEN <<>> ELSE fsys.files[f]]]

\* write of one chunk at offset pos; a hole is filled with zero chunks
WrittenAt(content, pos, chunk) ==
  [i \in 1..(IF pos + 1 > Len(content) THEN pos + 1 ELSE Len(content)) |->
     IF i = pos + 1 THEN chunk
     ELSE IF i <= Len(content) THEN content[i] ELSE "zero"]

\* the local variables of the command a task handles: path is the absolute path
\* the command reads, lists, removes or writes; size is the offset of its open
\* file; linked says that the open file still has its name; data is the
\* contents of an open file that lost its name (download) or what is left to
\* copy (upload)
\* and, for an operator command: message is the line, op_needs_save,
\* op_change_msg and notify_target_sock are the locals of handle_server_command,
\* and failed says that a send to the issuer failed
NoFrame == [cmd |-> <<>>, target |-> <<>>, name |-> <<>>, path |-> NoPath,
            size |-> 0, data |-> <<>>, linked |-> FALSE,
            message |-> <<>>, op_needs_save |-> FALSE, op_change_msg |-> NoMsg,
            notify_target_sock |-> 0, failed |-> FALSE]

\* what is kept of the frame when the command returns
Returned(fr) == [NoFrame EXCEPT !.cmd = fr.cmd, !.path = fr.path]

UPLOADS == join(CWD, FILE_DIRECTORY)
notes == <<"n">>

\* The uploads root holds alice's directory, with or without the file n of two
\* chunks; the working directory holds the credentials file and a file n of
\* one chunk.
FSWith(present) ==
  [ dirs |-> {<<SEP>>, CWD, UPLOADS, join(UPLOADS, alice)},
    files |-> IF present
              THEN (join(CWD, USER_CREDENTIALS_FILE) :> <<"credentials">>)
                   @@ (join(CWD, notes) :> <<"x1">>)
                   @@ (join(join(UPLOADS, alice), notes) :> <<"n1", "n2">>)
              ELSE (join(CWD, USER_CREDENTIALS_FILE) :> <<"credentials">>)
                   @@ (join(CWD, notes) :> <<"x1">>) ]

InitFS == FSWith(TRUE)

(***************************************************************************)
(* handle_client: the commands on files.                                   *)
(***************************************************************************)
UPLOAD == <<"/","u","p","l","o","a","d">>
DOWNLOAD == <<"/","d","o","w","n","l","o","a","d">>
FILES == <<"/","f","i","l","e","s">>
DELETE == <<"/","d","e","l","e","t","e">>

\* the read loop of s receives line, a command whose token is command
ReadsCommand(s, line, command) ==
  /\ CanRecv(s)
  /\ ReadsLine(s)
  /\ IsCommand(line)
  /\ CommandOf(line) = command

\* task t writes message m to socket s, or fails to
Wrote(s, t, ok, m) ==
  /\ SendOutcome(s, ok)
  /\ sent' = IF ok THEN Sent(s, m) ELSE {}
  /\ wire' = IF ok THEN WireWritten(wire, s, t, m.tag) ELSE wire

\* the handler sends m to its own socket and returns to the loop; when the send
\* fails the exception or the next recv ends the loop
Answered(s, ok, m) ==
  /\ Wrote(s, s, ok, m)
  /\ pc' = [pc EXCEPT ![s] = IF ok THEN "recv" ELSE "cleanup"]

\* /download <username> <filename>, up to the checks of handle_download
DownloadCommand(s, line, ok) ==
  /\ ReadsCommand(s, line, DOWNLOAD)
  /\ LET parts == SplitMax(Strip(line), SP, 2)
         target_user == parts[2]
         filename == StripQuotes(parts[3])
         user_dir == join(FILE_DIRECTORY, target_user)
         filepath == join(user_dir, filename)
         called == [NoFrame EXCEPT !.cmd = DOWNLOAD]
     IN IF Len(parts) < 3
        THEN /\ Answered(s, ok, Msg("Usage: /download <username> <filename>"))
             /\ frame' = [frame EXCEPT ![s] = called]
        ELSE IF invalid_filename(filename)
        THEN /\ Answered(s, ok, Msg("Invalid filename requested."))
             /\ frame' = [frame EXCEPT ![s] = called]
        ELSE IF ~startswith(abspath(filepath), abspath(user_dir))
        THEN /\ Answered(s, ok, Msg("Error: File access denied."))
             /\ frame' = [frame EXCEPT ![s] = called]
        ELSE IF ~isfile(fs, filepath)
        THEN /\ Answered(s, ok, MsgUT("Error: File not found in directory.", target_user, filename))
             /\ frame' = [frame EXCEPT ![s] = called]
        ELSE /\ ok
             /\ frame' = [frame EXCEPT ![s] = [called EXCEPT !.target = target_user,
                                                  !.name = filename,
                                                  !.path = Lookup(fs, filepath)]]
             /\ pc' = [pc EXCEPT ![s] = "download_size"]
             /\ sent' = {}
             /\ UNCHANGED wire
  /\ UNCHANGED <<clients, storeVars, sock, username, login_successful, bc, fs,
                 serverVars, trace>>
  /\ UNCHANGED <<inbox, receiver>>

\* file_size = os.path.getsize(filepath); client_socket.send(header)
DownloadHeader(s, ok) ==
  /\ pc[s] = "download_size"
  /\ IF frame[s].path \notin DOMAIN fs.files
     THEN /\ Answered(s, ok, MsgU("Error: File not found during read.", frame[s].name))
          /\ frame' = [frame EXCEPT ![s] = Returned(@)]
     ELSE /\ SendOutcome(s, ok)
          /\ IF ok
             THEN /\ sent' = Sent(s, MsgU("FILE_TRANSFER", frame[s].name))
                  /\ wire' = [wire EXCEPT ![s] =
                                [NoTransfer EXCEPT !.size = Len(fs.files[frame[s].path]),
                                                   !.file = fs.files[frame[s].path]]]
                  /\ pc' = [pc EXCEPT ![s] = "download_open"]
                  /\ UNCHANGED frame
             ELSE /\ sent' = {}
                  /\ pc' = [pc EXCEPT ![s] = "cleanup"]
                  /\ frame' = [frame EXCEPT ![s] = Returned(@)]
                  /\ UNCHANGED wire
  /\ UNCHANGED <<clients, storeVars, sock, username, login_successful, bc, fs,
                 serverVars, handled, trace>>
  /\ UNCHANGED <<inbox, receiver>>

\* what handle_download itself writes after the header
OwnWritten(w, s, item) == [WireWritten(w, s, s, item) EXCEPT ![s].own = Append(@, item)]

\* time.sleep(0.1); open(filepath, "rb"), which raises FileNotFoundError when the
\* file is gone
DownloadOpen(s, ok) ==
  /\ pc[s] = "download_open"
  /\ IF frame[s].path \notin DOMAIN fs.files
     THEN /\ SendOutcome(s, ok)
          /\ sent' = IF ok THEN Sent(s, MsgU("Error: File not found during read.", frame[s].name))
                     ELSE {}
          /\ wire' = IF ok THEN OwnWritten(wire, s, "Error: File not found during read.")
                     ELSE [wire EXCEPT ![s].broken = TRUE]
          /\ pc' = [pc EXCEPT ![s] = IF ok THEN "recv" ELSE "cleanup"]
          /\ frame' = [frame EXCEPT ![s] = Returned(@)]
     ELSE /\ ok
          /\ pc' = [pc EXCEPT ![s] = "download_read"]
          /\ frame' = [frame EXCEPT ![s].linked = TRUE, ![s].size = 0]
          /\ sent' = {}
          /\ UNCHANGED wire
  /\ UNCHANGED <<clients, storeVars, sock, username, login_successful, bc, fs,
                 serverVars, handled, trace>>
  /\ UNCHANGED <<inbox, receiver>>

\* the contents of the file a task has open
OpenContents(t) == IF frame[t].linked THEN fs.files[frame[t].path] ELSE frame[t].data

\* data = file.read(4096); if not data: break; client_socket.sendall(data)
DownloadChunk(s, ok) ==
  /\ pc[s] = "download_read"
  /\ IF frame[s].size < Len(OpenContents(s))
     THEN /\ SendOutcome(s, ok)
          /\ IF ok
             THEN /\ sent' = Sent(s, Msg(OpenContents(s)[frame[s].size + 1]))
                  /\ wire' = OwnWritten(wire, s, OpenContents(s)[frame[s].size + 1])
                  /\ frame' = [frame EXCEPT ![s].size = @ + 1]
                  /\ UNCHANGED pc
             ELSE /\ sent' = {}
                  /\ wire' = [wire EXCEPT ![s].broken = TRUE]
                  /\ frame' = [frame EXCEPT ![s] = Returned(@)]
                  /\ pc' = [pc EXCEPT ![s] = "cleanup"]
     ELSE /\ ok
          /\ sent' = {}
          /\ frame' = [frame EXCEPT ![s] = Returned(@)]
          /\ pc' = [pc EXCEPT ![s] = "recv"]
          /\ UNCHANGED wire
  /\ UNCHANGED <<clients, storeVars, sock, username, login_successful, bc, fs,
                 serverVars, handled, trace>>
  /\ UNCHANGED <<inbox, receiver>>

\* /upload <server_source_filepath>, up to the checks of handle_upload
UploadCommand(s, line, ok) ==
  /\ ReadsCommand(s, line, UPLOAD)
  /\ LET parts == SplitMax(Strip(line), SP, 1)
         filepath == StripQuotes(parts[2])
         user_dir == join(FILE_DIRECTORY, username[s])
         filename == basename(filepath)
         dest_path == join(user_dir, filename)
         made == MadeDir(fs, user_dir)
         called == [NoFrame EXCEPT !.cmd = UPLOAD]
     IN IF Len(parts) < 2
        THEN /\ Answered(s, ok, Msg("Usage: /upload <server_source_filepath>"))
             /\ frame' = [frame EXCEPT ![s] = called]
             /\ UNCHANGED fs
        ELSE /\ fs' = made
             /\ IF ~exists(made, filepath)
                THEN /\ Answered(s, ok, MsgU("Source file not found on server.", filename))
                     /\ frame' = [frame EXCEPT ![s] = called]
                ELSE IF ~isfile(made, filepath)
                THEN /\ Answered(s, ok, MsgU("Source path is not a file.", filename))
                     /\ frame' = [frame EXCEPT ![s] = called]
                ELSE IF invalid_filename(filename)
                THEN /\ Answered(s, ok, Msg("Invalid filename provided."))
                     /\ frame' = [frame EXCEPT ![s] = called]
                ELSE IF exists(made, dest_path)
                THEN /\ Answered(s, ok, MsgU("File already exists in your server directory. Upload failed.",
                                             filename))
                     /\ frame' = [frame EXCEPT ![s] = called]
                ELSE /\ ok
                     /\ frame' = [frame EXCEPT ![s] = [called EXCEPT !.target = filepath,
                                                          !.name = filename,
                                                          !.path = abspath(dest_path)]]
                     /\ pc' = [pc EXCEPT ![s] = "upload_open"]
                     /\ sent' = {}
                     /\ UNCHANGED wire
  /\ UNCHANGED <<clients, storeVars, sock, username, login_successful, bc,
                 serverVars, trace>>
  /\ UNCHANGED <<inbox, receiver>>

\* open(filepath, "rb") and open(dest_path, "wb")
UploadOpen(s, ok) ==
  /\ pc[s] = "upload_open"
  /\ IF ~isfile(fs, frame[s].target)
     THEN /\ Answered(s, ok, Msg("Error uploading file: Check server logs."))
          /\ frame' = [frame EXCEPT ![s] = Returned(@)]
          /\ UNCHANGED fs
     ELSE /\ ok
          /\ fs' = Truncated(fs, frame[s].path)
          /\ frame' = [frame EXCEPT ![s].data = fs.files[Lookup(fs, frame[s].target)],
                                    ![s].size = 0,
                                    ![s].linked = TRUE]
          /\ pc' = [pc EXCEPT ![s] = "upload_copy"]
          /\ sent' = {}
          /\ UNCHANGED wire
  /\ UNCHANGED <<clients, storeVars, sock, username, login_successful, bc,
                 serverVars, handled, trace>>
  /\ UNCHANGED <<inbox, receiver>>

\* while (data := src_file.read(4096)): dest_file.write(data)
UploadChunk(s) ==
  /\ pc[s] = "upload_copy"
  /\ frame[s].data # <<>>
  /\ fs' = IF frame[s].linked
           THEN [fs EXCEPT !.files[frame[s].path] =
                             WrittenAt(@, frame[s].size, Head(frame[s].data))]
           ELSE fs
  /\ frame' = [frame EXCEPT ![s].data = Tail(@), ![s].size = @ + 1]
  /\ sent' = {}
  /\ UNCHANGED <<clients, storeVars, sock, username, login_successful, bc, pc, wire,
                 serverVars, handled, trace>>
  /\ UNCHANGED <<inbox, receiver>>

\* the end of the copy: the success message, then the broadcast to everybody
UploadFinish(s, ok) ==
  /\ pc[s] = "upload_copy"
  /\ frame[s].data = <<>>
  /\ Wrote(s, s, ok, MsgU("File uploaded successfully to your server directory.", frame[s].name))
  /\ frame' = [frame EXCEPT ![s] = Returned(@)]
  /\ IF ok
     THEN /\ bc' = Broadcasting(s, MsgU("uploaded a file.", username[s]), 0, "recv")
          /\ pc' = [pc EXCEPT ![s] = "broadcast"]
     ELSE /\ pc' = [pc EXCEPT ![s] = "cleanup"]
          /\ UNCHANGED bc
  /\ UNCHANGED <<clients, storeVars, sock, username, login_successful, fs,
                 serverVars, handled, trace>>
  /\ UNCHANGED <<inbox, receiver>>

\* username in ops
is_op_Everyone(u) == TRUE

is_op_Nobody(u) == FALSE

is_op(u) == u \in Range(ops)

\* a file that is removed keeps its contents for the tasks that have it open
Unlinked(t, path) ==
  IF frame[t].linked /\ frame[t].path = path
  THEN [frame[t] EXCEPT !.linked = FALSE,
                        !.data = IF pc[t] = "download_read" THEN fs.files[path] ELSE @]
  ELSE frame[t]

\* /delete <filename> and /delete <target_user> <filename>: handle_delete_file
DeleteCommand(s, line, ok) ==
  /\ ReadsCommand(s, line, DELETE)
  /\ CanLock(s)
  /\ LET command_parts == Split(Strip(line), SP)
         own == Len(command_parts) = 2
         target_user == IF own THEN username[s] ELSE command_parts[2]
         filename == IF own THEN command_parts[2] ELSE command_parts[3]
         user_dir == join(FILE_DIRECTORY, target_user)
         filepath == join(user_dir, filename)
         called == [NoFrame EXCEPT !.cmd = DELETE]
     IN IF Len(command_parts) = 3 /\ ~is_op(username[s])
        THEN /\ Answered(s, ok, Msg("Permission denied. Only Operators can delete other users' files."))
             /\ frame' = [frame EXCEPT ![s] = called]
             /\ UNCHANGED fs
        ELSE IF Len(command_parts) \notin {2, 3}
        THEN /\ Answered(s, ok, Msg("Usage: /delete <filename>  OR  /delete <target_user> <filename>"))
             /\ frame' = [frame EXCEPT ![s] = called]
             /\ UNCHANGED fs
        ELSE IF invalid_filename(filename)
        THEN /\ Answered(s, ok, Msg("Invalid filename provided."))
             /\ frame' = [frame EXCEPT ![s] = called]
             /\ UNCHANGED fs
        ELSE IF ~startswith(abspath(filepath), abspath(user_dir))
        THEN /\ Answered(s, ok, Msg("Error: File access denied (path violation)."))
             /\ frame' = [frame EXCEPT ![s] = called]
             /\ UNCHANGED fs
        ELSE IF isfile(fs, filepath)
        THEN /\ fs' = Removed(fs, Lookup(fs, filepath))
             /\ frame' = [t \in Tasks |->
                            IF t = s THEN [called EXCEPT !.path = Lookup(fs, filepath)]
                            ELSE Unlinked(t, Lookup(fs, filepath))]
             /\ Answered(s, ok, MsgUT("File deleted successfully", target_user, filename))
        ELSE /\ Answered(s, ok, MsgUT("Error: File not found in directory.", target_user, filename))
             /\ frame' = [frame EXCEPT ![s] = called]
             /\ UNCHANGED fs
  /\ UNCHANGED <<clients, storeVars, sock, username, login_successful, bc,
                 serverVars, trace>>
  /\ UNCHANGED <<inbox, receiver>>

\* /files <username>: handle_list_files
ListFilesCommand(s, line, ok) ==
  /\ ReadsCommand(s, line, FILES)
  /\ LET parts == SplitMax(Strip(line), SP, 1)
         target_user == parts[2]
         user_dir == join(FILE_DIRECTORY, target_user)
         called == [NoFrame EXCEPT !.cmd = FILES]
     IN IF Len(parts) < 2
        THEN /\ Answered(s, ok, Msg("Usage: /files <username>"))
             /\ frame' = [frame EXCEPT ![s] = called]
        ELSE IF ~isdir(fs, user_dir)
        THEN /\ Answered(s, ok, MsgUT("FILE_LIST", target_user, <<>>))
             /\ frame' = [frame EXCEPT ![s] = called]
        ELSE /\ \E files \in Orders(ListedFiles(fs, user_dir)) :
                  Answered(s, ok, MsgUT("FILE_LIST", target_user, JoinWith(files, ";")))
             /\ frame' = [frame EXCEPT ![s] = [called EXCEPT !.path = Lookup(fs, user_dir)]]
  /\ UNCHANGED <<clients, storeVars, sock, username, login_successful, bc, fs,
                 serverVars, trace>>
  /\ UNCHANGED <<inbox, receiver>>

(***************************************************************************)
(* handle_client: a chat message.                                          *)
(***************************************************************************)
MaxMessageLen == 512

\* client_socket.recv(2048)
RecvSize == 2048

\* what one recv returns of what the peer has sent, and what stays for the next
Received1(data) == SubSeq(data, 1, IF Len(data) < RecvSize THEN Len(data) ELSE RecvSize)
Remaining(data) == SubSeq(data, RecvSize + 1, Len(data))

\* variant: a chat message is handed to an idle thread, which broadcasts it
\* while the loop reads on
ChatReceived_HandedOff(s, message, ok) ==
  LET msg_content == Strip(message)
      idle == pc[Console] = "console" /\ bc[Console] = NoBroadcast
  IN /\ ~IsCommand(message)
     /\ msg_content # <<>>
     /\ Len(msg_content) <= MaxMessageLen
     /\ ok
     /\ bc' = Broadcasting(IF idle THEN Console ELSE s,
                           MsgUT("chat", username[s], msg_content), s,
                           IF idle THEN "console" ELSE "recv")
     /\ pc' = [pc EXCEPT ![IF idle THEN Console ELSE s] = "broadcast"]
     /\ sent' = {}
     /\ UNCHANGED <<clients, storeVars, sock, username, login_successful, frame, fs,
                    wire, serverVars, trace>>

\* the loop has received message, which is no command: an empty message is
\* skipped, one of more than 512 characters is answered with an error, any other
\* is broadcast to the other sessions
ChatReceived(s, message, ok) ==
  LET msg_content == Strip(message)
  IN /\ ~IsCommand(message)
     /\ IF msg_content = <<>>
        THEN /\ ok
             /\ sent' = {}
             /\ UNCHANGED <<pc, bc, wire>>
        ELSE IF Len(msg_content) > MaxMessageLen
        THEN /\ Answered(s, ok, Msg("Message cannot exceed 512 characters."))
             /\ UNCHANGED bc
        ELSE /\ ok
             /\ bc' = Broadcasting(s, MsgUT("chat", username[s], msg_content), s, "recv")
             /\ pc' = [pc EXCEPT ![s] = "broadcast"]
             /\ sent' = {}
             /\ UNCHANGED wire
     /\ UNCHANGED <<clients, storeVars, sock, username, login_successful, frame, fs,
                    serverVars, trace>>

\* the peer sends line, which is no command, and the loop receives as much of it
\* as one recv returns
ChatMessage(s, line, ok) ==
  /\ CanRecv(s)
  /\ ReadsLine(s)
  /\ ChatReceived(s, Received1(line), ok)
  /\ inbox' = [inbox EXCEPT ![s] = Remaining(line)]
  /\ UNCHANGED receiver

\* the next recv returns what was left of a line longer than one recv
ChatRemainder(s, ok) ==
  /\ pc[s] = "recv"
  /\ sock[s] = "open"
  /\ inbox[s] # <<>>
  /\ ChatReceived(s, Received1(inbox[s]), ok)
  /\ inbox' = [inbox EXCEPT ![s] = Remaining(@)]
  /\ UNCHANGED receiver
  /\ UNCHANGED handled

(***************************************************************************)
(* handle_client: the operator commands, and handle_server_command.        *)
(***************************************************************************)
OP == <<"/","o","p">>
DEOP == <<"/","d","e","o","p">>
LISTOPS == <<"/","l","i","s","t","o","p","s">>
STOP == <<"/","s","t","o","p">>
RESTART == <<"/","r","e","s","t","a","r","t">>

OperatorCommands == {KICK, STOP, RESTART, LISTOPS, OP, DEOP}

\* the characters of a username in the order of their code points
CodeOrder ==
  <<"-","0","1","2","3","4","5","6","7","8","9",
    "A","B","C","D","E","F","G","H","I","J","K","L","M","N","O","P","Q","R","S",
    "T","U","V","W","X","Y","Z","_",
    "a","b","c","d","e","f","g","h","i","j","k","l","m","n","o","p","q","r","s",
    "t","u","v","w","x","y","z">>

Code(c) == CHOOSE i \in DOMAIN CodeOrder : CodeOrder[i] = c

\* a < b for strings
RECURSIVE Before(_, _)
Before(a, b) ==
  IF b = <<>> THEN FALSE
  ELSE IF a = <<>> THEN TRUE
  ELSE IF Head(a) = Head(b) THEN Before(Tail(a), Tail(b))
  ELSE Code(Head(a)) < Code(Head(b))

\* sorted(list)
RECURSIVE sorted(_)
sorted(list) ==
  IF list = <<>> THEN <<>>
  ELSE LET least == CHOOSE i \in DOMAIN list : \A j \in DOMAIN list : ~Before(list[j], list[i])
       IN <<list[least]>> \o sorted([k \in 1..(Len(list) - 1) |->
                                       IF k < least THEN list[k] ELSE list[k + 1]])

\* list.remove(x): the first occurrence goes
RECURSIVE Removing(_, _)
Removing(list, x) ==
  IF list = <<>> THEN <<>>
  ELSE IF Head(list) = x THEN Tail(list) ELSE <<Head(list)>> \o Removing(Tail(list), x)

\* the branch of the read loop for /kick, /stop, /restart, /listops, /op, /deop:
\* is_op is read under the lock; a user who is not an operator gets the
\* permission error
OperatorCommand(s, line, ok) ==
  /\ CanRecv(s)
  /\ ReadsLine(s)
  /\ IsCommand(line)
  /\ CommandOf(line) \in OperatorCommands
  /\ CanLock(s)
  /\ frame' = [frame EXCEPT ![s] = [NoFrame EXCEPT !.cmd = CommandOf(line),
                                                   !.message = Strip(line)]]
  /\ IF ~is_op(username[s])
     THEN Answered(s, ok, Msg("You do not have permission to execute this command."))
     ELSE /\ ok
          /\ pc' = [pc EXCEPT ![s] = "server_command"]
          /\ sent' = {}
          /\ UNCHANGED wire
  /\ UNCHANGED <<clients, storeVars, sock, username, login_successful, bc, fs,
                 serverVars, trace>>
  /\ UNCHANGED <<inbox, receiver>>

\* after the lock: save_ops if needed, then the messages of /op and /deop
AfterLock(s, fr) ==
  /\ frame' = [frame EXCEPT ![s] = fr]
  /\ pc' = [pc EXCEPT ![s] = IF fr.op_needs_save THEN "save_ops" ELSE "op_reply"]

\* handle_server_command, the part under the lock
KickLocked(s, parts, ok) ==
  LET target_user == parts[2]
      reason == IF Len(parts) > 2 THEN parts[3] ELSE <<>>
      target_socket_kick == FindSocketByUsername(target_user)
  IN IF Len(parts) < 2
     THEN /\ Answered(s, ok, Msg("Usage: /kick <username> [reason]"))
          /\ UNCHANGED <<clients, sock, bc, frame>>
     ELSE IF target_user = username[s]
     THEN /\ Answered(s, ok, Msg("You cannot kick yourself."))
          /\ UNCHANGED <<clients, sock, bc, frame>>
     ELSE IF target_socket_kick # 0
     THEN /\ Wrote(target_socket_kick, s, ok, MsgUT("You have been kicked", username[s], reason))
          /\ clients' = Popped(clients, target_socket_kick)
          /\ sock' = [sock EXCEPT ![target_socket_kick] = "closed"]
          /\ bc' = Broadcasting(s, MsgUT("was kicked", target_user, reason), 0, "recv")
          /\ pc' = [pc EXCEPT ![s] = "broadcast"]
          /\ frame' = [frame EXCEPT ![s].target = target_user, ![s].failed = ~ok]
     ELSE /\ Answered(s, ok, MsgU("User not found online.", target_user))
          /\ UNCHANGED <<clients, sock, bc, frame>>

\* variant: /op appends without looking whether the name is in the list
OpLocked_AppendsAnyway(s, parts) ==
  LET target_user == parts[2]
      fr == frame[s]
  IN IF Len(parts) # 2
     THEN AfterLock(s, [fr EXCEPT !.op_change_msg = Msg("Usage: /op <username>")]) /\ UNCHANGED ops
     ELSE IF target_user = username[s]
     THEN AfterLock(s, [fr EXCEPT !.op_change_msg = Msg("You cannot op yourself.")]) /\ UNCHANGED ops
     ELSE IF target_user \notin DOMAIN user_credentials
     THEN AfterLock(s, [fr EXCEPT !.op_change_msg = MsgU("User does not exist (must be registered).",
                                                         target_user)]) /\ UNCHANGED ops
     ELSE /\ ops' = Append(ops, target_user)
          /\ AfterLock(s, [fr EXCEPT !.target = target_user,
                                     !.op_needs_save = TRUE,
                                     !.op_change_msg = MsgU("User is now an operator.", target_user),
                                     !.notify_target_sock = FindSocketByUsername(target_user)])

OpLocked(s, parts) ==
  LET target_user == parts[2]
      fr == frame[s]
  IN IF Len(parts) # 2
     THEN AfterLock(s, [fr EXCEPT !.op_change_msg = Msg("Usage: /op <username>")]) /\ UNCHANGED ops
     ELSE IF target_user = username[s]
     THEN AfterLock(s, [fr EXCEPT !.op_change_msg = Msg("You cannot op yourself.")]) /\ UNCHANGED ops
     ELSE IF target_user \notin DOMAIN user_credentials
     THEN AfterLock(s, [fr EXCEPT !.op_change_msg = MsgU("User does not exist (must be registered).",
                                                         target_user)]) /\ UNCHANGED ops
     ELSE IF target_user \in Range(ops)
     THEN AfterLock(s, [fr EXCEPT !.op_change_msg = MsgU("User is already an operator.",
                                                         target_user)]) /\ UNCHANGED ops
     ELSE /\ ops' = Append(ops, target_user)
          /\ AfterLock(s, [fr EXCEPT !.target = target_user,
                                     !.op_needs_save = TRUE,
                                     !.op_change_msg = MsgU("User is now an operator.", target_user),
                                     !.notify_target_sock = FindSocketByUsername(target_user)])

DeopLocked(s, parts) ==
  LET target_user == parts[2]
      fr == frame[s]
  IN IF Len(parts) # 2
     THEN AfterLock(s, [fr EXCEPT !.op_change_msg = Msg("Usage: /deop <username>")]) /\ UNCHANGED ops
     ELSE IF target_user = username[s]
     THEN AfterLock(s, [fr EXCEPT !.op_change_msg = Msg("You cannot deop yourself.")]) /\ UNCHANGED ops
     ELSE IF target_user \notin Range(ops)
     THEN AfterLock(s, [fr EXCEPT !.op_change_msg = MsgU("User is not an operator.", target_user)])
          /\ UNCHANGED ops
     ELSE /\ ops' = Removing(ops, target_user)
          /\ AfterLock(s, [fr EXCEPT !.target = target_user,
                                     !.op_needs_save = TRUE,
                                     !.op_change_msg = MsgU("User is no longer an operator.", target_user),
                                     !.notify_target_sock = FindSocketByUsername(target_user)])

ServerCommand(s, ok) ==
  /\ pc[s] = "server_command"
  /\ CanLock(s)
  /\ LET parts == SplitMax(frame[s].message, SP, 2)
         command == Lower(parts[1])
     IN CASE command = KICK ->
               /\ KickLocked(s, parts, ok)
               /\ UNCHANGED <<ops, lock>>
          [] command = OP ->
               /\ ok /\ OpLocked(s, parts)
               /\ sent' = {}
               /\ UNCHANGED <<clients, sock, bc, wire, lock>>
          [] command = DEOP ->
               /\ ok /\ DeopLocked(s, parts)
               /\ sent' = {}
               /\ UNCHANGED <<clients, sock, bc, wire, lock>>
          [] command = LISTOPS ->
               /\ Answered(s, ok, MsgUT("Current Operators:", <<>>, JoinWith(sorted(ops), ",")))
               /\ UNCHANGED <<clients, sock, bc, frame, ops, lock>>
          [] command \in {STOP, RESTART} ->
               /\ ok
               /\ lock' = s
               /\ bc' = Broadcasting(s, MsgU(IF command = STOP THEN "Server is shutting down NOW!"
                                             ELSE "Server is restarting NOW!", username[s]),
                                     0, "start_timer")
               /\ pc' = [pc EXCEPT ![s] = "broadcast"]
               /\ sent' = {}
               /\ UNCHANGED <<clients, sock, frame, wire, ops>>
  /\ UNCHANGED <<user_credentials, saved_credentials, saved_ops, allow_registration,
                 username, login_successful, fs, server_socket, timer, handled, trace>>
  /\ UNCHANGED <<inbox, receiver>>

\* threading.Timer(0.5, shutdown_server).start(), or restart_server; the lock is
\* released at the end of the with block
StartTimer(s) ==
  /\ pc[s] = "start_timer"
  /\ timer' = Append(timer, frame[s].cmd)
  /\ lock' = NoTask
  /\ pc' = [pc EXCEPT ![s] = "recv"]
  /\ sent' = {}
  /\ UNCHANGED <<clients, storeVars, sock, username, login_successful, bc, frame,
                 fileVars, server_socket, handled, trace>>
  /\ UNCHANGED <<inbox, receiver>>

SaveOps_NothingWritten(s) ==
  /\ pc[s] = "save_ops"
  /\ CanLock(s)
  /\ pc' = [pc EXCEPT ![s] = "op_reply"]
  /\ sent' = {}
  /\ UNCHANGED <<clients, storeVars, sock, username, login_successful, bc, frame,
                 fileVars, serverVars, handled, trace, inbox, receiver>>

\* if op_needs_save: save_ops(ops)
SaveOps(s) ==
  /\ pc[s] = "save_ops"
  /\ CanLock(s)
  /\ saved_ops' = ops
  /\ pc' = [pc EXCEPT ![s] = "op_reply"]
  /\ sent' = {}
  /\ UNCHANGED <<clients, user_credentials, ops, saved_credentials, allow_registration,
                 sock, username, login_successful, bc, frame, fileVars, serverVars,
                 handled, trace>>
  /\ UNCHANGED <<inbox, receiver>>

\* the command returns to the loop; after a failed send to the issuer the next
\* recv ends the loop
ServerCommandReturns(s, failed) ==
  /\ pc' = [pc EXCEPT ![s] = IF failed THEN "cleanup" ELSE "recv"]
  /\ frame' = [frame EXCEPT ![s] = Returned(@)]

\* client_socket.send(op_change_msg), an exception is logged and ignored
OpReply(s, ok) ==
  /\ pc[s] = "op_reply"
  /\ Wrote(s, s, ok, frame[s].op_change_msg)
  /\ IF frame[s].notify_target_sock # 0
     THEN /\ pc' = [pc EXCEPT ![s] = "op_notify"]
          /\ frame' = [frame EXCEPT ![s].failed = ~ok]
     ELSE ServerCommandReturns(s, ~ok)
  /\ UNCHANGED <<clients, storeVars, sock, username, login_successful, bc, fs,
                 serverVars, handled, trace>>
  /\ UNCHANGED <<inbox, receiver>>

\* notify_target_sock.send(notify_target_msg), an exception is logged and ignored
OpNotify(s, ok) ==
  /\ pc[s] = "op_notify"
  /\ Wrote(frame[s].notify_target_sock, s, ok,
           MsgU(IF frame[s].cmd = OP THEN "You have been promoted to Operator."
                ELSE "Your Operator status has been removed.", username[s]))
  /\ ServerCommandReturns(s, frame[s].failed)
  /\ UNCHANGED <<clients, storeVars, sock, username, login_successful, bc, fs,
                 serverVars, handled, trace>>
  /\ UNCHANGED <<inbox, receiver>>

(***************************************************************************)
(* shutdown_server and restart_server, run by the timer thread.  Timers    *)
(* that are pending together run one after the other.                      *)
(***************************************************************************)
\* with lock: client_sockets_to_close = list(clients.keys()); clients.clear()
TimerFires ==
  /\ pc[TimerThread] = "idle"
  /\ timer # <<>>
  /\ CanLock(TimerThread)
  /\ frame' = [frame EXCEPT ![TimerThread] = [NoFrame EXCEPT !.cmd = Head(timer)]]
  /\ timer' = Tail(timer)
  /\ bc' = [bc EXCEPT ![TimerThread] = [NoBroadcast EXCEPT !.todo = ClientKeys]]
  /\ clients' = <<>>
  /\ pc' = [pc EXCEPT ![TimerThread] = "closing"]
  /\ sent' = {}
  /\ UNCHANGED <<storeVars, sock, username, login_successful, fileVars,
                 server_socket, lock, handled, trace>>
  /\ UNCHANGED <<inbox, receiver>>

\* for client in client_sockets_to_close: send the message (errors are ignored),
\* shut the socket down and close it
ShutdownClose(ok) ==
  /\ pc[TimerThread] = "closing"
  /\ bc[TimerThread].todo # <<>>
  /\ LET client == Head(bc[TimerThread].todo)
     IN /\ Wrote(client, TimerThread, ok,
                 Msg(IF frame[TimerThread].cmd = STOP THEN "Server is shutting down. Goodbye!"
                     ELSE "Server is restarting. Please reconnect shortly."))
        /\ sock' = [sock EXCEPT ![client] = "closed"]
  /\ bc' = [bc EXCEPT ![TimerThread].todo = Tail(@)]
  /\ UNCHANGED <<clients, storeVars, pc, username, login_successful, frame, fs,
                 serverVars, handled, trace>>
  /\ UNCHANGED <<inbox, receiver>>

\* the server socket is closed and the state is saved; shutdown_server then ends
\* its thread with sys.exit
ShutdownFinish ==
  /\ pc[TimerThread] = "closing"
  /\ bc[TimerThread].todo = <<>>
  /\ frame[TimerThread].cmd = STOP
  /\ CanLock(TimerThread)
  /\ server_socket' = "closed"
  /\ saved_credentials' = user_credentials
  /\ saved_ops' = ops
  /\ pc' = [pc EXCEPT ![TimerThread] = "idle"]
  /\ bc' = [bc EXCEPT ![TimerThread] = NoBroadcast]
  /\ frame' = [frame EXCEPT ![TimerThread] = NoFrame]
  /\ sent' = {}
  /\ UNCHANGED <<clients, user_credentials, ops, allow_registration, sock, username,
                 login_successful, fileVars, timer, lock, handled, trace>>
  /\ UNCHANGED <<inbox, receiver>>

\* restart_server saves the state and replaces the process with os.execv: the new
\* process loads the saved files, listens again, and has no connection, no
\* thread and no timer of the old one
RestartExec ==
  /\ pc[TimerThread] = "closing"
  /\ bc[TimerThread].todo = <<>>
  /\ frame[TimerThread].cmd = RESTART
  /\ CanLock(TimerThread)
  /\ saved_credentials' = user_credentials
  /\ saved_ops' = ops
  /\ UNCHANGED <<user_credentials, ops>>
  /\ clients' = <<>>
  /\ sock' = [s \in Socks |-> IF sock[s] = "unconnected" THEN "unconnected" ELSE "closed"]
  /\ pc' = [t \in Tasks |-> IF t \in Socks
                            THEN (IF pc[t] = "unconnected" THEN "unconnected" ELSE "done")
                            ELSE IF t = Console THEN "console" ELSE "idle"]
  /\ username' = [s \in Socks |-> <<>>]
  /\ login_successful' = [s \in Socks |-> FALSE]
  /\ trace' = [s \in Socks |-> <<>>]
  /\ bc' = [t \in Tasks |-> NoBroadcast]
  /\ frame' = [t \in Tasks |-> NoFrame]
  /\ server_socket' = "listening"
  /\ timer' = <<>>
  /\ lock' = NoTask
  /\ sent' = {}
  /\ inbox' = [s \in Socks |-> <<>>]
  /\ UNCHANGED receiver
  /\ UNCHANGED <<allow_registration, fileVars, handled>>

(***************************************************************************)
(* The state after start-up: the credentials file holds alice, the ops     *)
(* file names alice, nobody is connected.                                  *)
(***************************************************************************)
InitStore ==
  /\ user_credentials = (alice :> hash_password(pwA))
  /\ saved_credentials = user_credentials
  /\ ops = <<alice>>
  /\ saved_ops = ops
  /\ allow_registration \in BOOLEAN

Init ==
  /\ InitStore
  /\ clients = <<>>
  /\ sock = [s \in TwoConnections |-> "unconnected"]
  /\ sent = {}
  /\ pc = [t \in Tasks |-> IF t \in Socks THEN "unconnected"
                           ELSE IF t = Console THEN "console" ELSE "idle"]
  /\ username = [s \in Socks |-> <<>>]
  /\ login_successful = [s \in Socks |-> FALSE]
  /\ bc = [t \in Tasks |-> NoBroadcast]
  /\ frame = [t \in Tasks |-> NoFrame]
  /\ fs = InitFS
  /\ wire = [s \in Socks |-> NoTransfer]
  /\ server_socket = "listening"
  /\ timer = <<>>
  /\ lock = NoTask
  /\ handled = [t \in Tasks |-> 0]
  /\ trace = [s \in Socks |-> <<>>]
  /\ inbox = [s \in Socks |-> <<>>]
  /\ receiver = NoReceiver

(***************************************************************************)
(* What the peers send during the login phase.                             *)
(***************************************************************************)
Received(lines) == {Data(l) : l \in lines} \cup {Data(<<>>), Timeout, Reset}

ServerPasswordLines == {SERVER_PASSWORD \o <<"\n">>, <<"x">>}

LongName == [i \in 1..(MaxUsernameLen + 1) |-> "a"]

UsernameLines == {alice, <<" ">> \o bob \o <<"\n">>, <<"a"," ","b">>, <<"a","!">>, LongName}

PasswordLines == {pwA \o <<"\n">>, pwB}

RegistrationLines ==
  { pwB \o <<":">> \o pwB, pwA \o <<":">> \o pwA \o <<"\n">>, pwA \o <<":">> \o pwB,
    <<":">>, pwB, pwB \o <<":">> \o pwB \o <<":">> \o pwB }

KickLines == { KICK \o <<SP>> \o alice, <<"/","K","i","c","k">> \o <<SP>> \o bob }

LoginStep(s) ==
  \/ Accept(s)
  \/ \E r \in Received(ServerPasswordLines), ok \in BOOLEAN : RecvServerPassword(s, r, ok)
  \/ \E r \in Received(UsernameLines), ok \in BOOLEAN : RecvUsername(s, r, ok)
  \/ \E r \in Received(PasswordLines), ok \in BOOLEAN : RecvPassword(s, r, ok)
  \/ \E r \in Received(RegistrationLines), ok \in BOOLEAN : RecvRegistration(s, r, ok)
  \/ \E ok \in BOOLEAN : SaveCredentials(s, ok)
  \/ RegisterSession(s)
  \/ \E ok \in BOOLEAN : SendWelcome(s, ok)
  \/ \E ok \in BOOLEAN : SendOperatorNotice(s, ok)

BroadcastStep(t) ==
  \/ BroadcastSnapshot(t)
  \/ \E ok \in BOOLEAN : BroadcastSend(t, ok)
  \/ BroadcastCleanup(t)

NextLogin ==
  \/ \E s \in Socks : LoginStep(s)
  \/ \E t \in Tasks : BroadcastStep(t)
  \/ \E s \in Socks : ReadLoopEnds(s)
  \/ \E s \in Socks : ExitCommand(s, <<"/","E","X","I","T">>)
  \/ \E s \in Socks : Cleanup(s)
  \/ \E s \in Socks : CloseSocket(s)
  \/ \E line \in KickLines, ok \in BOOLEAN : ConsoleKick(line, ok)

SpecLogin == Init /\ [][NextLogin]_vars

(***************************************************************************)
(* Claims about the login phase and the registry, checked under SpecLogin. *)
(***************************************************************************)

\* C1: no two entries of the session registry are bound to the same username.
C1_UniqueUsernames ==
  \A i, j \in DOMAIN clients : clients[i].user = clients[j].user => i = j

\* C3: a connection in the registry has a read loop that is running or that its
\* login task is about to start; it is never left there by a login task that ended.
C3_RegisteredHasReadLoop ==
  \A s \in Socks : InClients(s) => pc[s] # "done"

\* C4: when the task of a connection has ended, its socket is closed; a login that
\* did not start a read loop closed it in handle_login.
C4_EndedLoginClosedSocket ==
  \A s \in Socks : pc[s] = "done" => sock[s] = "closed"

\* The form password:confirmation with both halves non-empty and identical.
PasswordPair(line) ==
  \E k \in 2..(Len(line) - 1) :
    /\ line[k] = ":"
    /\ ":" \notin Range(SubSeq(line, 1, k - 1))
    /\ SubSeq(line, 1, k - 1) = SubSeq(line, k + 1, Len(line))

\* C9: a registration attempt creates a credential record (and goes on to create a
\* session) if and only if the line has the form password:confirmation and the
\* username had no credential record; otherwise the credential map is unchanged
\* and the login ends.
C9_RegistrationIff ==
  [][\A s \in Socks, r \in Received(RegistrationLines), ok \in BOOLEAN :
       RecvRegistration(s, r, ok) =>
         IF r.kind = "data" /\ PasswordPair(Strip(r.data))
            /\ username[s] \notin DOMAIN user_credentials
         THEN /\ username[s] \in DOMAIN user_credentials'
              /\ pc'[s] = "save_credentials"
         ELSE /\ user_credentials' = user_credentials
              /\ pc'[s] = "done"]_vars

\* 1 to 18 characters, alphanumeric plus _ and -
UsernameAllowed(u) ==
  /\ Len(u) \in 1..18
  /\ \A i \in 1..Len(u) : u[i] \in Letters \cup Digits \cup {"_", "-"}

\* C10: a connection in the registry went through AwaitServerPassword with the
\* configured password, AwaitUsername with a valid username that was not in use,
\* and then AwaitPassword with a password whose hash was the stored one or
\* AwaitRegistrationPasswordPair with an accepted pair, in this order, with no
\* failure in any of them.
C10_LoginOrder ==
  \A i \in DOMAIN clients :
    LET tr == trace[clients[i].sock]
    IN /\ Len(tr) = 3
       /\ \A k \in 1..3 : tr[k].io = "ok"
       /\ tr[1].st = "AwaitServerPassword"
       /\ Strip(tr[1].line) = SERVER_PASSWORD
       /\ tr[2].st = "AwaitUsername"
       /\ UsernameAllowed(Strip(tr[2].line))
       /\ Strip(tr[2].line) \notin tr[2].ctx
       /\ Strip(tr[2].line) = clients[i].user
       /\ \/ /\ tr[3].st = "AwaitPassword"
             /\ hash_password(Strip(tr[3].line)) \in tr[3].ctx
          \/ /\ tr[3].st = "AwaitRegistrationPasswordPair"
             /\ PasswordPair(Strip(tr[3].line))

\* both ways in: one session entered with its stored password, another with an
\* accepted registration, and both read loops have started
C10_BothWaysIn ==
  /\ \E i \in DOMAIN clients :
       /\ pc[clients[i].sock] = "recv"
       /\ Len(trace[clients[i].sock]) = 3
       /\ trace[clients[i].sock][3].st = "AwaitPassword"
  /\ \E i \in DOMAIN clients :
       /\ pc[clients[i].sock] = "recv"
       /\ Len(trace[clients[i].sock]) = 3
       /\ trace[clients[i].sock][3].st = "AwaitRegistrationPasswordPair"

\* C11: a login attempt that submits a username bound to a session of the registry
\* ends there: the only thing written is 'Username already logged in.', no password
\* is requested, the new connection is closed, and the registry and the socket and
\* read loop of every other connection are unchanged.
C11_DuplicateLoginRejected ==
  [][\A s \in Socks, r \in Received(UsernameLines), ok \in BOOLEAN :
       (r.kind = "data" /\ Strip(r.data) \in ClientUsernames /\ RecvUsername(s, r, ok))
         => /\ sent' = (IF ok THEN Sent(s, Msg("Username already logged in.")) ELSE {})
            /\ pc'[s] = "done"
            /\ sock'[s] = "closed"
            /\ clients' = clients
            /\ \A o \in Socks \ {s} : sock'[o] = sock[o] /\ pc'[o] = pc[o]]_vars

\* alice is in her read loop and a second connection that gave her name was told
\* that she is logged in, and closed
C11_SecondAliceTurnedAway ==
  \E s, o \in Socks :
    /\ s # o
    /\ sent = Sent(s, Msg("Username already logged in."))
    /\ pc[s] = "done" /\ sock[s] = "closed"
    /\ clients = <<[sock |-> o, user |-> alice]>>
    /\ pc[o] = "recv" /\ sock[o] = "open"

(***************************************************************************)
(* The file commands, from a state in which two sessions are established:  *)
(* alice, an operator, on connection 1 and bob on connection 2.  Both have *)
(* logged in with their stored passwords and are in their read loops.      *)
(***************************************************************************)
\* what handle_login received from a user who entered with a stored password
LoggedIn(u, password, online) ==
  << [st |-> "AwaitServerPassword", line |-> SERVER_PASSWORD, ctx |-> {}, io |-> "ok"],
     [st |-> "AwaitUsername", line |-> u, ctx |-> online, io |-> "ok"],
     [st |-> "AwaitPassword", line |-> password, ctx |-> {hash_password(password)},
      io |-> "ok"] >>

EstablishedWith(second, password, operators) ==
  /\ user_credentials = (alice :> hash_password(pwA)) @@ (bob :> hash_password(pwB))
  /\ saved_credentials = user_credentials
  /\ ops = operators
  /\ saved_ops = ops
  /\ allow_registration = TRUE
  /\ clients = <<[sock |-> 1, user |-> alice], [sock |-> 2, user |-> second]>>
  /\ sock = [s \in TwoConnections |-> "open"]
  /\ sent = {}
  /\ pc = [t \in Tasks |-> IF t \in Socks THEN "recv"
                           ELSE IF t = Console THEN "console" ELSE "idle"]
  /\ username = [s \in Socks |-> IF s = 1 THEN alice ELSE second]
  /\ login_successful = [s \in Socks |-> TRUE]
  /\ bc = [t \in Tasks |-> NoBroadcast]
  /\ frame = [t \in Tasks |-> NoFrame]
  /\ wire = [s \in Socks |-> NoTransfer]
  /\ server_socket = "listening"
  /\ timer = <<>>
  /\ lock = NoTask
  /\ handled = [t \in Tasks |-> 0]
  /\ trace = [s \in Socks |-> IF s = 1 THEN LoggedIn(alice, pwA, {})
                              ELSE LoggedIn(second, password, {})]
  /\ inbox = [s \in Socks |-> <<>>]
  /\ receiver = NoReceiver

Established(second, password) == EstablishedWith(second, password, <<alice>>)

InitFiles ==
  /\ Established(bob, pwB)
  /\ fs \in {FSWith(TRUE), FSWith(FALSE)}

DownloadLines ==
  { DOWNLOAD \o <<SP>> \o alice \o <<SP>> \o notes,
    <<"/","D","o","w","n","l","o","a","d">> \o <<SP>> \o DOTDOT \o <<SP>> \o USER_CREDENTIALS_FILE,
    DOWNLOAD \o <<SP>> \o alice }

UploadLines == { UPLOAD \o <<SP>> \o notes, UPLOAD \o <<SP>> \o <<"z">>, UPLOAD }

DeleteLines ==
  { DELETE \o <<SP>> \o notes,
    DELETE \o <<SP>> \o alice \o <<SP>> \o notes,
    DELETE \o <<SP>> \o DOTDOT \o <<SP>> \o notes,
    DELETE \o <<SP>> \o DOTDOT \o <<SEP>> \o notes }

FilesLines == { FILES \o <<SP>> \o alice, FILES \o <<SP>> \o DOTDOT, FILES }

ChatLines == { <<"h","i">> }

FileStep(s) ==
  \/ \E line \in DownloadLines, ok \in BOOLEAN : DownloadCommand(s, line, ok)
  \/ \E ok \in BOOLEAN : DownloadHeader(s, ok)
  \/ \E ok \in BOOLEAN : DownloadOpen(s, ok)
  \/ \E ok \in BOOLEAN : DownloadChunk(s, ok)
  \/ \E line \in UploadLines, ok \in BOOLEAN : UploadCommand(s, line, ok)
  \/ \E ok \in BOOLEAN : UploadOpen(s, ok)
  \/ UploadChunk(s)
  \/ \E ok \in BOOLEAN : UploadFinish(s, ok)
  \/ \E line \in DeleteLines, ok \in BOOLEAN : DeleteCommand(s, line, ok)
  \/ \E line \in FilesLines, ok \in BOOLEAN : ListFilesCommand(s, line, ok)

NextFiles ==
  \E s \in Socks :
    \/ FileStep(s)
    \/ \E line \in ChatLines, ok \in BOOLEAN : ChatMessage(s, line, ok)
    \/ BroadcastStep(s)
    \/ ReadLoopEnds(s)
    \/ Cleanup(s)
    \/ CloseSocket(s)

SpecFiles == InitFiles /\ [][NextFiles]_vars

\* The same commands from a state in which both connections hold a session of
\* alice: the registry can come to hold two entries of one username (see C1).
InitSameUser ==
  /\ Established(alice, pwA)
  /\ fs \in {FSWith(TRUE), FSWith(FALSE)}

SpecSameUser == InitSameUser /\ [][NextFiles]_vars

(***************************************************************************)
(* Claims about the file commands, checked under SpecFiles.                *)
(***************************************************************************)
DownloadSending == {"download_open", "download_read"}

\* C5: when a download that wrote a FILE_TRANSFER header has returned without a
\* failed send, what it wrote after the header is exactly the contents the file
\* had when its size was looked up, and as many units as the header announced.
C5_TransferMatchesFile ==
  \A s \in Socks :
    (wire[s].size >= 0 /\ ~wire[s].broken /\ pc[s] \notin DownloadSending)
      => /\ wire[s].own = wire[s].file
         /\ Len(wire[s].own) = wire[s].size

\* C6: while a download is between its header and its last payload unit, every
\* unit written to its socket since the header was written by the download itself.
C6_NoForeignWrites ==
  \A s \in Socks :
    pc[s] \in DownloadSending
      => \A i \in DOMAIN wire[s].data : wire[s].data[i].by = s

\* the directory of one user under the uploads root (for /files), or a path below it
InUserDirectory(cmd, path) ==
  LET comps == Split(path, SEP)
      root == Split(UPLOADS, SEP)
  IN /\ Len(comps) >= Len(root) + (IF cmd = FILES THEN 1 ELSE 2)
     /\ SubSeq(comps, 1, Len(root)) = root
     /\ comps[Len(root) + 1] \notin {<<>>, <<".">>, DOTDOT}

\* C7: every path that a /download reads, a /files lists or a /delete removes is
\* the directory of one user under the uploads root or lies below it.
C7_PathsInsideUserDirectory ==
  \A s \in Socks :
    (frame[s].cmd \in {DOWNLOAD, FILES, DELETE} /\ frame[s].path # NoPath)
      => InUserDirectory(frame[s].cmd, frame[s].path)

\* C8: when handle_upload opens its destination for writing, no file exists at
\* the destination path.
C8_UploadNeverOverwrites ==
  [][\A s \in Socks :
       (pc[s] = "upload_open" /\ pc'[s] = "upload_copy")
         => frame[s].path \notin DOMAIN fs.files]_vars

(***************************************************************************)
(* The operator commands, from the state in which alice, an operator, and  *)
(* bob are in their read loops.                                            *)
(***************************************************************************)
InitCmd ==
  /\ Established(bob, pwB)
  /\ fs = InitFS

OperatorLines ==
  { KICK \o <<SP>> \o bob,
    <<"/","K","I","C","K">> \o <<SP>> \o alice \o <<SP>> \o <<"x">>,
    OP \o <<SP>> \o bob,
    DEOP \o <<SP>> \o alice,
    <<"/","D","e","O","p">> \o <<SP>> \o bob,
    <<"/","L","i","s","t","O","p","s">>,
    <<"/","S","T","O","P">>,
    <<"/","r","e","S","t","a","r","t">> }

CommandStep(s) ==
  \/ \E line \in OperatorLines, ok \in BOOLEAN : OperatorCommand(s, line, ok)
  \/ \E ok \in BOOLEAN : ServerCommand(s, ok)
  \/ StartTimer(s)
  \/ SaveOps(s)
  \/ \E ok \in BOOLEAN : OpReply(s, ok)
  \/ \E ok \in BOOLEAN : OpNotify(s, ok)

TimerStep ==
  \/ TimerFires
  \/ \E ok \in BOOLEAN : ShutdownClose(ok)
  \/ ShutdownFinish
  \/ RestartExec

NextCmd ==
  \/ \E s \in Socks :
       \/ CommandStep(s)
       \/ BroadcastStep(s)
       \/ ReadLoopEnds(s)
       \/ Cleanup(s)
       \/ CloseSocket(s)
  \/ TimerStep

SpecCmd == InitCmd /\ [][NextCmd]_vars

\* C2: when the read loop of a session whose username is not in the operator list
\* takes /kick, /op, /deop, /listops, /stop or /restart, in any letter case, the
\* only thing written is the permission error to that session, and the
\* registry, the operator list, the ops file, the sockets, the server socket
\* and the timers are unchanged; the loop goes on to its next recv.
C2_NonOperatorDenied ==
  [][\A s \in Socks, line \in OperatorLines, ok \in BOOLEAN :
       (handled'[s] # handled[s] /\ username[s] \notin Range(ops)
          /\ OperatorCommand(s, line, ok))
         => /\ sent' = IF ok
                       THEN Sent(s, Msg("You do not have permission to execute this command."))
                       ELSE {}
            /\ UNCHANGED <<clients, ops, saved_ops, sock, server_socket, timer, lock>>
            /\ pc'[s] \in {"recv", "cleanup"}]_vars

\* bob, who is not an operator, has sent /KICK alice x and got the permission
\* error, and alice is still in the registry
C2_KickDenied ==
  \E s \in Socks :
    /\ username[s] = bob
    /\ bob \notin Range(ops)
    /\ frame[s].message = <<"/","K","I","C","K">> \o <<SP>> \o alice \o <<SP>> \o <<"x">>
    /\ sent = Sent(s, Msg("You do not have permission to execute this command."))
    /\ pc[s] = "recv"
    /\ alice \in ClientUsernames

(***************************************************************************)
(* handle_client: /list.                                                   *)
(***************************************************************************)
LIST == <<"/","l","i","s","t">>

\* ", ".join(list)
RECURSIVE CommaJoined(_)
CommaJoined(list) ==
  IF list = <<>> THEN <<>>
  ELSE IF Len(list) = 1 THEN list[1]
  ELSE list[1] \o <<",", SP>> \o CommaJoined(Tail(list))

\* f"Connected users ({num_users}): {user_list_str}"
ConnectedUsers(reg) ==
  [tag |-> "Connected users", user |-> <<>>,
   text |-> CommaJoined(sorted([i \in DOMAIN reg |-> reg[i].user])),
   count |-> Len(reg)]

ListCommand(s, line, ok) ==
  /\ ReadsCommand(s, line, LIST)
  /\ CanLock(s)
  /\ Answered(s, ok, ConnectedUsers(clients))
  /\ frame' = [frame EXCEPT ![s] = [NoFrame EXCEPT !.cmd = LIST]]
  /\ UNCHANGED <<clients, storeVars, sock, username, login_successful, bc, fs,
                 serverVars, trace>>
  /\ UNCHANGED <<inbox, receiver>>

(***************************************************************************)
(* Kicks, chat and broadcasts among three sessions: alice, an operator, on *)
(* connection 1, bob on connection 2 and a third session on connection 3,  *)
(* all in their read loops.                                                *)
(***************************************************************************)
carol == <<"c","a","r","o","l">>
pwC == <<"r">>

ThreeEstablished(third, password) ==
  /\ user_credentials = (alice :> hash_password(pwA)) @@ (bob :> hash_password(pwB))
                          @@ (carol :> hash_password(pwC))
  /\ saved_credentials = user_credentials
  /\ ops = <<alice>>
  /\ saved_ops = ops
  /\ allow_registration = TRUE
  /\ clients = <<[sock |-> 1, user |-> alice], [sock |-> 2, user |-> bob],
                 [sock |-> 3, user |-> third]>>
  /\ sock = [s \in ThreeConnections |-> "open"]
  /\ sent = {}
  /\ pc = [t \in Tasks |-> IF t \in Socks THEN "recv"
                           ELSE IF t = Console THEN "console" ELSE "idle"]
  /\ username = [s \in Socks |-> clients[s].user]
  /\ login_successful = [s \in Socks |-> TRUE]
  /\ bc = [t \in Tasks |-> NoBroadcast]
  /\ frame = [t \in Tasks |-> NoFrame]
  /\ fs = InitFS
  /\ wire = [s \in Socks |-> NoTransfer]
  /\ server_socket = "listening"
  /\ timer = <<>>
  /\ lock = NoTask
  /\ handled = [t \in Tasks |-> 0]
  /\ trace = [s \in Socks |-> IF s = 1 THEN LoggedIn(alice, pwA, {})
                              ELSE IF s = 2 THEN LoggedIn(bob, pwB, {})
                              ELSE LoggedIn(third, password, {})]
  /\ inbox = [s \in Socks |-> <<>>]
  /\ receiver = NoReceiver

InitThree == ThreeEstablished(carol, pwC)

\* the registry holds two sessions of bob (see C1)
InitThreeSameUser == ThreeEstablished(bob, pwB)

ThreeKickLines ==
  { KICK \o <<SP>> \o bob \o <<SP>> \o <<"r">>,
    <<"/","K","i","c","k">> \o <<SP>> \o carol }

RemoteKickLines == { <<"/","K","i","c","k">> \o <<SP>> \o carol }

ConsoleKickLines == { KICK \o <<SP>> \o bob }

KickStep(s, lines) ==
  \/ \E line \in lines, ok \in BOOLEAN : OperatorCommand(s, line, ok)
  \/ \E ok \in BOOLEAN : ServerCommand(s, ok)

NextKick ==
  \/ \E s \in Socks :
       \/ KickStep(s, RemoteKickLines)
       \/ ReadLoopEnds(s)
       \/ Cleanup(s)
       \/ CloseSocket(s)
  \/ \E t \in Tasks : BroadcastStep(t)
  \/ \E line \in ConsoleKickLines, ok \in BOOLEAN : ConsoleKick(line, ok)

SpecKick == InitThree /\ [][NextKick]_vars

\* kicks and /list, with no session leaving by itself
NextKickList ==
  \/ \E s \in Socks :
       \/ KickStep(s, ThreeKickLines)
       \/ \E ok \in BOOLEAN : ListCommand(s, LIST, ok)
       \/ BroadcastStep(s)

SpecKickSameUser == InitThreeSameUser /\ [][NextKickList]_vars

\* chat among the three sessions, any of which can leave at any time
NextChat ==
  \E s \in Socks :
    \/ \E line \in ChatLines, ok \in BOOLEAN : ChatMessage(s, line, ok)
    \/ BroadcastStep(s)
    \/ ReadLoopEnds(s)
    \/ Cleanup(s)
    \/ CloseSocket(s)

SpecChat == InitThree /\ [][NextChat]_vars

\* what the peers type as chat: a short line, a line of white space, lines of
\* 512 and of 513 characters, and a line one character longer than one recv
Repeated(c, n) == [i \in 1..n |-> c]

ChatInputLines ==
  { <<SP, "h", "i", "\n">>,
    <<SP, "\n">>,
    Repeated("a", MaxMessageLen),
    Repeated("a", MaxMessageLen + 1),
    Repeated("a", RecvSize + 1) }

NextChatInput ==
  \E s \in Socks :
    \/ \E line \in ChatInputLines, ok \in BOOLEAN : ChatMessage(s, line, ok)
    \/ \E ok \in BOOLEAN : ChatRemainder(s, ok)
    \/ BroadcastStep(s)

SpecChatInput == InitThree /\ [][NextChatInput]_vars

\* the socket of the session that /kick of task s is about to remove, 0 when the
\* command of s is no kick of a user with a session
KickTarget(s) ==
  LET parts == SplitMax(frame[s].message, SP, 2)
  IN IF /\ pc[s] = "server_command"
        /\ Lower(parts[1]) = KICK
        /\ Len(parts) >= 2
        /\ parts[2] # username[s]
     THEN FindSocketByUsername(parts[2])
     ELSE 0

\* the usernames a /list reply names
Listed(m) == {LStrip(n) : n \in Range(Split(m.text, ","))}

\* the kick of task s has returned to the read loop
KickCompleted(s) ==
  /\ frame[s].cmd = KICK
  /\ frame[s].target # <<>>
  /\ pc[s] \notin {"server_command", "broadcast", "broadcast_send"}

\* C12: when an operator kicks u, who has a session: the kick notice is what is
\* written to u's socket in the step that shuts it down and closes it; once the
\* command has returned u is not in the registry and no /list reply names u; and
\* every session in the registry when the command returns was sent the
\* 'was kicked' broadcast.
C12_KickRemovesAndNotifies ==
  [][\A s \in Socks :
       /\ \A ok \in BOOLEAN :
            (KickTarget(s) # 0 /\ ServerCommand(s, ok))
              => /\ ok => \E x \in sent' : x.to = KickTarget(s)
                 /\ \A x \in sent' : x.to = KickTarget(s) /\ x.msg.tag = "You have been kicked"
                 /\ sock'[KickTarget(s)] = "closed"
       /\ KickCompleted(s)'
            => /\ frame'[s].target \notin ClientUsernames'
               /\ \A x \in sent' :
                    x.msg.tag = "Connected users" => frame'[s].target \notin Listed(x.msg)
       /\ (~KickCompleted(s) /\ KickCompleted(s)')
            => \A i \in DOMAIN clients' :
                 clients'[i].sock \in Range(bc[s].delivered) \cup {x.to : x \in sent'}]_vars

\* the socket that /kick typed at the console is about to remove, 0 when there is none
ConsoleKickTarget(command_input) ==
  LET parts == ConsoleParts(command_input)
  IN IF pc[Console] = "console" /\ Lower(parts[1]) = KICK /\ Len(parts) >= 2
     THEN FindSocketByUsername(parts[2])
     ELSE 0

\* the kick of task t has removed socket k although the notice was not written
KickedAnyway(t, k) ==
  /\ sent' = {}
  /\ clients' = Popped(clients, k)
  /\ k \notin ClientSockets'
  /\ sock'[k] = "closed"
  /\ pc'[t] = "broadcast"
  /\ bc'[t].msg.tag = "was kicked"
  /\ bc'[t].sender = 0

\* C13: when the send of the kick notice (or the shutdown after it) fails, the
\* kick, remote or from the console, still removes the target session from the
\* registry, closes its socket and calls the 'was kicked' broadcast for all
\* sessions; and when that broadcast returns, every session in the registry was
\* sent it.
C13_KickSurvivesSendFailure ==
  [][/\ \A s \in Socks :
          (KickTarget(s) # 0 /\ ServerCommand(s, FALSE)) => KickedAnyway(s, KickTarget(s))
     /\ \A line \in ConsoleKickLines :
          (ConsoleKickTarget(line) # 0 /\ ConsoleKick(line, FALSE))
            => KickedAnyway(Console, ConsoleKickTarget(line))
     /\ \A t \in Tasks :
          (bc[t].msg.tag = "was kicked" /\ frame[t].failed /\ bc'[t] = NoBroadcast)
            => \A i \in DOMAIN clients' :
                 clients'[i].sock \in Range(bc[t].delivered) \cup {x.to : x \in sent'}]_vars

\* the console has kicked bob and alice has kicked carol, both notices failed, both
\* broadcasts have returned, and alice, the one session left, got both
C13_BothKicksWithFailedNotice ==
  /\ frame[Console].cmd = KICK /\ frame[Console].failed /\ pc[Console] = "console"
  /\ frame[1].cmd = KICK /\ frame[1].target = carol /\ frame[1].failed /\ pc[1] = "recv"
  /\ clients = <<[sock |-> 1, user |-> alice]>>
  /\ sock[2] = "closed" /\ sock[3] = "closed"
  /\ sent = Sent(1, MsgUT("was kicked", carol, <<>>))

(***************************************************************************)
(* Claims about the lock, the operator list and the broadcast.             *)
(***************************************************************************)

\* C14: no task sends on a socket while it holds the lock: a task that is in the
\* send loop of broadcast does not hold it.
C14_NoSendUnderLock ==
  [][\A t \in Tasks, ok \in BOOLEAN : BroadcastSend(t, ok) => lock # t]_vars

\* the handles a call of broadcast has sent to or failed to send to, in order
Attempted(b) == b.delivered \o b.failed

NoDuplicates(seq) == \A i, j \in DOMAIN seq : seq[i] = seq[j] => i = j

\* C15: a call of broadcast takes as its handles the registry snapshot without the
\* excluded socket, each once; every step of its loop makes one send attempt, to
\* the next of these handles, whether or not an earlier send failed, and writes
\* the message to it when the send succeeds; the call returns only when every
\* handle has had its attempt.
C15_BroadcastSendsToAll ==
  [][\A t \in Tasks :
       /\ (pc[t] = "broadcast" /\ pc'[t] = "broadcast_send")
            => /\ Range(bc'[t].todo) = ClientSockets \ {bc[t].sender}
               /\ NoDuplicates(bc'[t].todo)
               /\ Attempted(bc'[t]) = <<>>
       /\ (pc[t] = "broadcast" /\ pc'[t] \notin {"broadcast", "broadcast_send"})
            => ClientSockets \ {bc[t].sender} = {}
       /\ (pc[t] = "broadcast_send" /\ bc'[t] # bc[t] /\ bc[t].todo # <<>>)
            => LET client == Head(bc[t].todo)
               IN /\ client # bc[t].sender
                  /\ client \notin Range(Attempted(bc[t]))
                  /\ sent' \in {{}, Sent(client, bc[t].msg)}
                  /\ bc'[t] = NoBroadcast => Tail(bc[t].todo) = <<>> /\ sent' # {}
                  /\ bc'[t] # NoBroadcast
                       => /\ bc'[t].todo = Tail(bc[t].todo)
                          /\ bc'[t].delivered = IF sent' # {} THEN Append(bc[t].delivered, client)
                                                ELSE bc[t].delivered
                          /\ bc'[t].failed = IF sent' # {} THEN bc[t].failed
                                             ELSE Append(bc[t].failed, client)
       /\ (pc[t] = "broadcast_send" /\ bc'[t] # bc[t] /\ bc[t].todo = <<>>)
            => sent' = {} /\ bc'[t] = NoBroadcast]_vars

\* alice's chat message could not be sent to bob, the first handle, and was then
\* sent to carol
C15_SentAfterFailure ==
  /\ pc[1] = "broadcast_send"
  /\ bc[1].msg.tag = "chat"
  /\ bc[1].failed = <<2>>
  /\ bc[1].delivered = <<3>>
  /\ bc[1].todo = <<>>
  /\ sent = Sent(3, bc[1].msg)

\* C16: when a call of broadcast returns, every handle whose send failed in the
\* call is out of the registry and its socket is closed, and every handle that
\* was in the registry and did not fail in the call is still there.
C16_FailedHandlesReaped ==
  [][\A t \in Tasks :
       (pc[t] = "broadcast_send" /\ bc'[t] = NoBroadcast)
         => /\ \A c \in Range(bc[t].failed) :
                 c \notin ClientSockets' /\ sock'[c] = "closed"
            /\ \A c \in ClientSockets \ Range(bc[t].failed) : c \in ClientSockets'
            /\ \A c \in Range(bc[t].delivered) \ Range(bc[t].failed) : sock'[c] = sock[c]]_vars

\* alice's chat message could not be sent to bob: bob, whose read loop has not
\* ended, is out of the registry and his socket is closed; carol, who got the
\* message, is still registered
C16_BobReaped ==
  /\ handled[1] = 1 /\ handled[2] = 0 /\ handled[3] = 0
  /\ pc[1] = "recv" /\ pc[2] = "recv" /\ pc[3] = "recv"
  /\ bc[1] = NoBroadcast
  /\ clients = <<[sock |-> 1, user |-> alice], [sock |-> 3, user |-> carol]>>
  /\ sock[2] = "closed" /\ sock[3] = "open"

\* C17: a line that is no command, received from session s: with 1 to 512
\* characters after trimming it is handed to broadcast with the username of s and
\* with s excluded, and no send of that broadcast goes to s; an empty line
\* changes nothing; a line of more than 512 characters starts no broadcast, its
\* answer is the error to s, and no part of it is broadcast by a later recv.
C17_ChatLineBroadcast ==
  [][\A s \in Socks, ok \in BOOLEAN :
       /\ \A line \in ChatInputLines :
            ChatMessage(s, line, ok)
              => LET content == Strip(line)
                 IN IF content = <<>>
                    THEN sent' = {} /\ bc' = bc /\ pc' = pc
                    ELSE IF Len(content) <= 512
                    THEN /\ bc'[s].msg = MsgUT("chat", username[s], content)
                         /\ bc'[s].sender = s
                         /\ pc'[s] = "broadcast"
                         /\ sent' = {}
                    ELSE /\ bc' = bc
                         /\ sent' = (IF ok THEN Sent(s, Msg("Message cannot exceed 512 characters."))
                                     ELSE {})
       /\ ChatRemainder(s, ok) => bc' = bc
       /\ (bc[s].msg.tag = "chat" /\ BroadcastSend(s, ok))
            => \A x \in sent' : x.to # s /\ x.to \in Range(bc[s].todo) /\ x.msg.user = username[s]]_vars

\* The file commands from a state in which bob has uploaded the file n of the
\* working directory: his directory holds a copy of it.
FSBothUploaded ==
  [ dirs |-> FSWith(TRUE).dirs \cup {join(UPLOADS, bob)},
    files |-> FSWith(TRUE).files @@ (join(join(UPLOADS, bob), notes) :> <<"x1">>) ]

InitDelete ==
  /\ Established(bob, pwB)
  /\ fs = FSBothUploaded

NextDelete ==
  \E s \in Socks :
    \/ \E line \in DeleteLines, ok \in BOOLEAN : DeleteCommand(s, line, ok)
    \/ \E line \in FilesLines, ok \in BOOLEAN : ListFilesCommand(s, line, ok)
    \/ BroadcastStep(s)
    \/ ReadLoopEnds(s)
    \/ Cleanup(s)
    \/ CloseSocket(s)

SpecDelete == InitDelete /\ [][NextDelete]_vars

\* C18: a /delete from a session whose user is no operator removes at most one
\* file, and only one inside the directory of that user; in the form
\* /delete <user> <file> it removes nothing and the answer is the permission
\* error; whoever issues it, a removed file has a name that passes the character
\* validation and lies inside the directory of the user the command names.
C18_DeleteOwnFilesOnly ==
  [][\A s \in Socks, line \in DeleteLines, ok \in BOOLEAN :
       DeleteCommand(s, line, ok)
         => LET command_parts == Split(Strip(line), SP)
                target_user == IF Len(command_parts) = 2 THEN username[s] ELSE command_parts[2]
                removed == DOMAIN fs.files \ DOMAIN fs'.files
            IN /\ username[s] \notin Range(ops)
                    => /\ Cardinality(removed) <= 1
                       /\ \A f \in removed :
                            dirname(f) = abspath(join(FILE_DIRECTORY, username[s]))
                       /\ Len(command_parts) = 3
                            => /\ fs' = fs
                               /\ sent' \subseteq
                                    Sent(s, Msg("Permission denied. Only Operators can delete other users' files."))
               /\ \A f \in removed :
                    /\ Len(command_parts) \in {2, 3}
                    /\ ~invalid_filename(basename(f))
                    /\ basename(f) = command_parts[Len(command_parts)]
                    /\ startswith(f, abspath(join(FILE_DIRECTORY, target_user)))]_vars

\* bob, who is no operator, has removed the file n of his own directory
C18_BobRemovedOwnFile ==
  /\ username[2] = bob
  /\ bob \notin Range(ops)
  /\ frame[2].cmd = DELETE
  /\ frame[2].path = join(join(UPLOADS, bob), notes)
  /\ frame[2].path \notin DOMAIN fs.files

(***************************************************************************)
(* /op and /deop, from a state in which the operators file names carol,    *)
(* who has no credential record: load_ops and load_credentials read their  *)
(* files independently of each other.                                      *)
(***************************************************************************)
InitOps ==
  /\ EstablishedWith(bob, pwB, <<alice, carol>>)
  /\ fs = InitFS

OpLines ==
  { OP \o <<SP>> \o bob,
    OP \o <<SP>> \o alice,
    OP \o <<SP>> \o <<"z">>,
    OP,
    DEOP \o <<SP>> \o bob,
    DEOP \o <<SP>> \o alice,
    DEOP \o <<SP>> \o carol,
    DEOP \o <<SP>> \o bob \o <<SP>> \o <<"x">> }

NextOps ==
  \E s \in Socks :
    \/ \E line \in OpLines, ok \in BOOLEAN : OperatorCommand(s, line, ok)
    \/ \E ok \in BOOLEAN : ServerCommand(s, ok)
    \/ SaveOps(s)
    \/ \E ok \in BOOLEAN : OpReply(s, ok)
    \/ \E ok \in BOOLEAN : OpNotify(s, ok)
    \/ BroadcastStep(s)
    \/ ReadLoopEnds(s)
    \/ Cleanup(s)
    \/ CloseSocket(s)

SpecOps == InitOps /\ [][NextOps]_vars

\* the replies of /op and /deop that are an error or the usage
OpErrors ==
  { "Usage: /op <username>", "Usage: /deop <username>",
    "You cannot op yourself.", "You cannot deop yourself.",
    "User does not exist (must be registered).", "User is not an operator." }

\* C19: the step of /op u or /deop u under the lock changes ops only if u has a
\* credential record and is not the issuer; in every other case ops is
\* unchanged, no save is due and the reply to the issuer is an error or the
\* usage.
C19_OpNeedsRegisteredOther ==
  [][\A s \in Socks, ok \in BOOLEAN :
       (/\ pc[s] = "server_command"
        /\ frame[s].cmd \in {OP, DEOP}
        /\ ServerCommand(s, ok))
         => LET parts == SplitMax(frame[s].message, SP, 2)
                allowed == /\ Len(parts) = 2
                           /\ parts[2] \in DOMAIN user_credentials
                           /\ parts[2] # username[s]
            IN /\ ops' # ops => allowed
               /\ ~allowed => /\ ops' = ops
                              /\ ~frame'[s].op_needs_save
                              /\ frame'[s].op_change_msg.tag \in OpErrors]_vars

(***************************************************************************)
(* /op and /deop typed at the console, and a user who is made an operator  *)
(* while offline.                                                          *)
(***************************************************************************)
\* the part under the lock: the checks, ops.append or ops.remove, the lookup of the
\* socket to notify
ConsoleOpCommand(command_input) ==
  /\ pc[Console] = "console"
  /\ CanLock(Console)
  /\ ReadsLine(Console)
  /\ LET parts == ConsoleParts(command_input)
         cmd == Lower(parts[1])
         target == parts[2]
         changed == [NoFrame EXCEPT !.cmd = cmd,
                                    !.target = target,
                                    !.op_needs_save = TRUE,
                                    !.notify_target_sock = FindSocketByUsername(target)]
     IN /\ cmd \in {OP, DEOP}
        /\ IF Len(parts) < 2
           THEN UNCHANGED <<ops, frame, pc>>
           ELSE IF cmd = OP
           THEN IF target \notin DOMAIN user_credentials \/ target \in Range(ops)
                THEN UNCHANGED <<ops, frame, pc>>
                ELSE /\ ops' = Append(ops, target)
                     /\ frame' = [frame EXCEPT ![Console] = changed]
                     /\ pc' = [pc EXCEPT ![Console] = "save_ops"]
           ELSE IF target \notin Range(ops)
                THEN UNCHANGED <<ops, frame, pc>>
                ELSE /\ ops' = Removing(ops, target)
                     /\ frame' = [frame EXCEPT ![Console] = changed]
                     /\ pc' = [pc EXCEPT ![Console] = "save_ops"]
  /\ sent' = {}
  /\ UNCHANGED <<clients, user_credentials, saved_credentials, saved_ops, allow_registration,
                 sock, username, login_successful, bc, fileVars, serverVars, trace, inbox, receiver>>

\* after the lock: save_ops(ops), then the notice to the user when online; an
\* exception of the send is printed and ignored
ConsoleOpSaved(ok) ==
  /\ pc[Console] = "save_ops"
  /\ CanLock(Console)
  /\ saved_ops' = ops
  /\ IF frame[Console].notify_target_sock # 0
     THEN Wrote(frame[Console].notify_target_sock, Console, ok,
                MsgU(IF frame[Console].cmd = OP THEN "You have been promoted to Operator."
                     ELSE "Your Operator status has been removed.", <<"C">>))
     ELSE ok /\ sent' = {} /\ UNCHANGED wire
  /\ frame' = [frame EXCEPT ![Console] = Returned(@)]
  /\ pc' = [pc EXCEPT ![Console] = "console"]
  /\ UNCHANGED <<clients, user_credentials, ops, saved_credentials, allow_registration,
                 sock, username, login_successful, bc, fs, serverVars, handled, trace, inbox, receiver>>

\* alice, an operator, is in her read loop; nobody else is connected; bob is
\* registered or not
InitOffline ==
  /\ user_credentials \in { (alice :> hash_password(pwA)),
                            (alice :> hash_password(pwA)) @@ (bob :> hash_password(pwB)) }
  /\ saved_credentials = user_credentials
  /\ ops = <<alice>>
  /\ saved_ops = ops
  /\ allow_registration = TRUE
  /\ clients = <<[sock |-> 1, user |-> alice]>>
  /\ sock = [s \in TwoConnections |-> IF s = 1 THEN "open" ELSE "unconnected"]
  /\ sent = {}
  /\ pc = [t \in Tasks |-> IF t = 1 THEN "recv"
                           ELSE IF t = Console THEN "console"
                           ELSE IF t = TimerThread THEN "idle" ELSE "unconnected"]
  /\ username = [s \in Socks |-> IF s = 1 THEN alice ELSE <<>>]
  /\ login_successful = [s \in Socks |-> s = 1]
  /\ bc = [t \in Tasks |-> NoBroadcast]
  /\ frame = [t \in Tasks |-> NoFrame]
  /\ fs = InitFS
  /\ wire = [s \in Socks |-> NoTransfer]
  /\ server_socket = "listening"
  /\ timer = <<>>
  /\ lock = NoTask
  /\ handled = [t \in Tasks |-> 0]
  /\ trace = [s \in Socks |-> IF s = 1 THEN LoggedIn(alice, pwA, {}) ELSE <<>>]
  /\ inbox = [s \in Socks |-> <<>>]
  /\ receiver = NoReceiver

OfflineLines == { OP \o <<SP>> \o bob, KICK \o <<SP>> \o alice }

ConsoleOpLines == { OP \o <<SP>> \o bob, DEOP \o <<SP>> \o alice }

NextOffline ==
  \/ \E s \in Socks :
       \/ LoginStep(s)
       \/ \E line \in OfflineLines, ok \in BOOLEAN : OperatorCommand(s, line, ok)
       \/ \E ok \in BOOLEAN : ServerCommand(s, ok)
       \/ SaveOps(s)
       \/ \E ok \in BOOLEAN : OpReply(s, ok)
       \/ \E ok \in BOOLEAN : OpNotify(s, ok)
       \/ ExitCommand(s, <<"/","e","x","i","t">>)
       \/ ReadLoopEnds(s)
       \/ Cleanup(s)
       \/ CloseSocket(s)
  \/ \E t \in Tasks : BroadcastStep(t)
  \/ \E line \in ConsoleOpLines : ConsoleOpCommand(line)
  \/ \E ok \in BOOLEAN : ConsoleOpSaved(ok)

SpecOffline == InitOffline /\ [][NextOffline]_vars

\* the step of task s that handles /op or /deop under the lock
OpStep(s) ==
  /\ pc[s] = "server_command"
  /\ frame[s].cmd \in {OP, DEOP}
  /\ \E ok \in BOOLEAN : ServerCommand(s, ok)

\* C20: ops changes only in the step of /op or /deop of a session and in the
\* step of /op or /deop of the console, so login, registration, /exit,
\* disconnect, kick and the reaping of broadcast leave it unchanged; /op of a
\* registered user who is in no session appends that user; and an operator
\* command of a session whose user is in ops is accepted, the first command of
\* the session included.
C20_OpsChangedOnlyByOpDeop ==
  [][/\ ops' # ops
          => \/ \E s \in Socks : OpStep(s)
             \/ \E line \in ConsoleOpLines : ConsoleOpCommand(line)
     /\ \A s \in Socks :
          (/\ OpStep(s)
           /\ frame[s].message = OP \o <<SP>> \o bob
           /\ bob \in DOMAIN user_credentials
           /\ bob \notin Range(ops)
           /\ bob \notin ClientUsernames)
            => ops' = Append(ops, bob)
     /\ \A s \in Socks, line \in OfflineLines, ok \in BOOLEAN :
          (OperatorCommand(s, line, ok) /\ username[s] \in Range(ops))
            => pc'[s] = "server_command"]_vars

\* bob was made an operator by alice's /op while he was in no session: alice had
\* left the registry when his username arrived; the first command of his
\* session, an operator command, is accepted
C20_BobOperatorAtFirstCommand ==
  /\ username[2] = bob
  /\ pc[2] = "server_command"
  /\ handled[2] = 1
  /\ bob \in Range(ops)
  /\ handled[Console] = 0
  /\ frame[1].cmd = OP
  /\ Len(trace[2]) >= 2
  /\ trace[2][2].ctx = {}

\* a task that has changed ops or user_credentials and has not yet returned
\* from the save that follows
SaveDue(t) == pc[t] \in {"save_ops", "save_credentials"}

ConsoleStop(command_input) ==
  /\ pc[Console] = "console"
  /\ ReadsLine(Console)
  /\ LET cmd == Lower(ConsoleParts(command_input)[1])
     IN /\ cmd \in {STOP, RESTART}
        /\ bc' = Broadcasting(Console, MsgU(IF cmd = STOP THEN "Server is shutting down NOW!"
                                            ELSE "Server is restarting NOW!", <<"C">>),
                              0, "start_timer")
        /\ frame' = [frame EXCEPT ![Console] = [NoFrame EXCEPT !.cmd = cmd]]
  /\ pc' = [pc EXCEPT ![Console] = "broadcast"]
  /\ sent' = {}
  /\ UNCHANGED <<clients, storeVars, sock, username, login_successful, fileVars,
                 serverVars, trace, inbox, receiver>>

\* threading.Timer(0.2, shutdown_server).start(); break
ConsoleStartTimer ==
  /\ pc[Console] = "start_timer"
  /\ timer' = Append(timer, frame[Console].cmd)
  /\ pc' = [pc EXCEPT ![Console] = "done"]
  /\ sent' = {}
  /\ UNCHANGED <<clients, storeVars, sock, username, login_successful, bc, frame,
                 fileVars, server_socket, lock, handled, trace, inbox, receiver>>

\* The accept loop of the main thread ends with an OSError once the listening
\* socket is closed, server() returns and the process ends with its daemon
\* threads: every socket is closed.  Where close() does not wake a thread that is
\* blocked in accept() the step does not happen.
AcceptLoopEnds ==
  /\ server_socket = "closed"
  /\ pc[TimerThread] = "idle"
  /\ \E t \in Tasks : pc[t] \notin {"done", "unconnected", "exited"}
  /\ clients' = <<>>
  /\ sock' = [s \in Socks |-> IF sock[s] = "open" THEN "closed" ELSE sock[s]]
  /\ pc' = [t \in Tasks |-> "exited"]
  /\ bc' = [t \in Tasks |-> NoBroadcast]
  /\ timer' = <<>>
  /\ lock' = NoTask
  /\ sent' = {}
  /\ UNCHANGED <<storeVars, username, login_successful, frame, fileVars,
                 server_socket, handled, trace, inbox, receiver>>

StopLines == { STOP, <<"/","R","e","s","t","a","r","t">> }

\* bob logs in with his password
LoginOfBob(s) ==
  \/ Accept(s)
  \/ RecvServerPassword(s, Data(SERVER_PASSWORD), TRUE)
  \/ RecvUsername(s, Data(bob), TRUE)
  \/ RecvPassword(s, Data(pwB), TRUE)
  \/ RegisterSession(s)
  \/ \E ok \in BOOLEAN : SendWelcome(s, ok)

InitStop == InitOffline /\ bob \in DOMAIN user_credentials

NextStop ==
  \/ \E s \in Socks :
       \/ LoginOfBob(s)
       \/ \E line \in StopLines, ok \in BOOLEAN : OperatorCommand(s, line, ok)
       \/ \E ok \in BOOLEAN : ServerCommand(s, ok)
       \/ StartTimer(s)
       \/ ReadLoopEnds(s)
       \/ Cleanup(s)
       \/ CloseSocket(s)
  \/ \E t \in Tasks : BroadcastStep(t)
  \/ TimerStep
  \/ \E line \in StopLines : ConsoleStop(line)
  \/ ConsoleStartTimer
  \/ AcceptLoopEnds

\* the steps task s of a connection takes by itself, whatever the peer does
ServerStep(s) ==
  \/ \E ok \in BOOLEAN : ServerCommand(s, ok)
  \/ StartTimer(s)
  \/ RegisterSession(s)
  \/ \E ok \in BOOLEAN : SendWelcome(s, ok)
  \/ Cleanup(s)
  \/ CloseSocket(s)

SpecStop == InitStop /\ [][NextStop]_vars

\* every thread of the server that can take a step takes one; nothing is
\* assumed of the peers and of the accept loop
SpecStopFair ==
  /\ SpecStop
  /\ \A s \in TwoConnections : WF_vars(ServerStep(s)) /\ WF_vars(BroadcastStep(s))
  /\ WF_vars(BroadcastStep(Console))
  /\ WF_vars(ConsoleStartTimer)
  /\ WF_vars(TimerStep)

Warnings == {"Server is shutting down NOW!", "Server is restarting NOW!"}

\* the old process is gone: restart_server has replaced it
Restarted ==
  /\ timer = <<>>
  /\ pc[TimerThread] = "idle"
  /\ server_socket = "listening"
  /\ \A s \in Socks : pc[s] \in {"unconnected", "done"}

AllClosed ==
  /\ clients = <<>>
  /\ \A s \in Socks : login_successful[s] => sock[s] # "open"
  /\ server_socket = "closed" \/ Restarted

\* C22: the warning of /stop and /restart goes to every socket of the registry,
\* the timer of the shutdown is started only when that broadcast has returned,
\* and once the timer is started, eventually the registry is empty, no socket
\* of a connection that has logged in is open and the listening socket is
\* closed.
C22_StopClosesEverything ==
  /\ [][/\ \A t \in Tasks :
            (bc[t].msg.tag \in Warnings /\ BroadcastSnapshot(t))
              => bc'[t].todo = ClientKeys
        /\ Len(timer') > Len(timer)
              => \E t \in Tasks : /\ pc[t] = "start_timer"
                                  /\ pc'[t] # "start_timer"
                                  /\ bc[t] = NoBroadcast]_vars
  /\ (timer # <<>>) ~> AllClosed

\* C23: with registration disabled, a login attempt whose valid username has no
\* credential record ends at the username: the only thing written is 'User
\* registration is not enabled on this server.', no password is requested, the
\* connection is closed, and the credential map and the registry are unchanged.
C23_RegistrationDisabledRejects ==
  [][\A s \in Socks, r \in Received(UsernameLines), ok \in BOOLEAN :
       (/\ r.kind = "data"
        /\ is_valid_username(Strip(r.data))
        /\ Strip(r.data) \notin ClientUsernames
        /\ Strip(r.data) \notin DOMAIN user_credentials
        /\ ~allow_registration
        /\ RecvUsername(s, r, ok))
         => /\ sent' = (IF ok THEN Sent(s, Msg("User registration is not enabled on this server."))
                        ELSE {})
            /\ pc'[s] = "done"
            /\ sock'[s] = "closed"
            /\ ~login_successful'[s]
            /\ user_credentials' = user_credentials
            /\ saved_credentials' = saved_credentials
            /\ clients' = clients]_vars

\* registration is disabled, and a connection that gave the name of bob, who has no
\* record, was told so and closed
C23_BobTurnedAway ==
  \E s \in Socks :
    /\ ~allow_registration
    /\ sent = Sent(s, Msg("User registration is not enabled on this server."))
    /\ pc[s] = "done" /\ sock[s] = "closed"
    /\ bob \notin DOMAIN user_credentials
    /\ \A i \in DOMAIN clients : clients[i].sock # s

(***************************************************************************)
(* A login followed by the read loop with downloads and chat.              *)
(***************************************************************************)
NextReaders ==
  \E s \in Socks :
    \/ LoginOfBob(s)
    \/ \E ok \in BOOLEAN : DownloadCommand(s, DOWNLOAD \o <<SP>> \o alice \o <<SP>> \o notes, ok)
    \/ \E ok \in BOOLEAN : DownloadHeader(s, ok)
    \/ \E ok \in BOOLEAN : DownloadOpen(s, ok)
    \/ \E ok \in BOOLEAN : DownloadChunk(s, ok)
    \/ \E line \in ChatLines, ok \in BOOLEAN : ChatMessage(s, line, ok)
    \/ BroadcastStep(s)
    \/ ReadLoopEnds(s)
    \/ Cleanup(s)
    \/ CloseSocket(s)

SpecReaders == InitStop /\ [][NextReaders]_vars

\* the positions at which handle_login reads from the socket
LoginReads ==
  {"AwaitServerPassword", "AwaitUsername", "AwaitPassword", "AwaitRegistrationPasswordPair"}

\* the thread of connection s is the login task, which ends with the join
\* broadcast
InLogin(s) ==
  \/ pc[s] \in LoginReads \cup {"unconnected", "save_credentials", "register_session",
                                "welcome", "op_notice"}
  \/ pc[s] \in {"broadcast", "broadcast_send"} /\ bc[s].msg.tag = "has joined the chat!"

\* the thread of connection s is its read loop
InReadLoop(s) == ~InLogin(s) /\ pc[s] # "done"

EXIT == <<"/","e","x","i","t">>

ExitLines == { <<"/","E","x","i","t">> \o <<SP>> \o <<"x">> }

NextLeave ==
  \/ \E line \in ExitLines : ExitCommand(3, line)
  \/ KickStep(1, RemoteKickLines)
  \/ \E s \in Socks :
       \/ ReadLoopEnds(s)
       \/ Cleanup(s)
       \/ CloseSocket(s)
  \/ \E t \in Tasks : BroadcastStep(t)
  \/ ConsoleStop(STOP)
  \/ ConsoleStartTimer
  \/ TimerFires
  \/ \E ok \in BOOLEAN : ShutdownClose(ok)
  \/ ShutdownFinish

SpecLeave == InitThree /\ [][NextLeave]_vars

LeftTheChat(s) == MsgU("has left the chat.", username[s])

HELP == <<"/","h","e","l","p">>

KnownCommands == {UPLOAD, DOWNLOAD, FILES, DELETE, LIST, HELP, EXIT} \cup OperatorCommands

\* variant: an unknown command ends the loop
UnknownCommand_Disconnects(s, line, ok) ==
  /\ CanRecv(s)
  /\ ReadsLine(s)
  /\ IsCommand(line)
  /\ CommandOf(line) \notin KnownCommands
  /\ Wrote(s, s, ok, MsgU("Unknown command", CommandOf(line)))
  /\ pc' = [pc EXCEPT ![s] = "cleanup"]
  /\ UNCHANGED <<clients, storeVars, sock, username, login_successful, bc, frame,
                 fs, serverVars, trace, inbox, receiver>>

\* else: client_socket.send(f"Unknown command: {command}")
UnknownCommand(s, line, ok) ==
  /\ CanRecv(s)
  /\ ReadsLine(s)
  /\ IsCommand(line)
  /\ CommandOf(line) \notin KnownCommands
  /\ Answered(s, ok, MsgU("Unknown command", CommandOf(line)))
  /\ UNCHANGED <<clients, storeVars, sock, username, login_successful, bc, frame,
                 fs, serverVars, trace, inbox, receiver>>

(***************************************************************************)
(* Requests that fail: alice, an operator, and bob send lines that are     *)
(* answered with an error, next to a kick of bob and sessions that leave.  *)
(***************************************************************************)
UnknownLines == { <<"/","W","h","o">> \o <<SP>> \o bob, <<"/">> }

LongLines == { Repeated("a", MaxMessageLen + 1) }

FailingDownloadLines ==
  { DOWNLOAD \o <<SP>> \o alice,
    DOWNLOAD \o <<SP>> \o alice \o <<SP>> \o DOTDOT,
    DOWNLOAD \o <<SP>> \o alice \o <<SP>> \o <<"z">> }

FailingDeleteLines ==
  { DELETE,
    DELETE \o <<SP>> \o alice \o <<SP>> \o <<"z">>,
    DELETE \o <<SP>> \o <<"a", ":", "b">>,
    DELETE \o <<SP>> \o <<"z">> }

FailingOperatorLines == { KICK, KICK \o <<SP>> \o bob }

NextErrors ==
  \/ \E s \in Socks :
       \/ \E line \in UnknownLines, ok \in BOOLEAN : UnknownCommand(s, line, ok)
       \/ \E line \in LongLines, ok \in BOOLEAN : ChatMessage(s, line, ok)
       \/ \E line \in FailingDownloadLines, ok \in BOOLEAN : DownloadCommand(s, line, ok)
       \/ \E line \in FailingDeleteLines, ok \in BOOLEAN : DeleteCommand(s, line, ok)
       \/ KickStep(s, FailingOperatorLines)
       \/ BroadcastStep(s)
       \/ ReadLoopEnds(s)
       \/ Cleanup(s)
       \/ CloseSocket(s)

SpecErrors == InitFiles /\ [][NextErrors]_vars

ErrorReplies ==
  { "Unknown command",
    "Message cannot exceed 512 characters.",
    "Invalid filename requested.", "Invalid filename provided.",
    "Error: File not found in directory.",
    "Usage: /download <username> <filename>",
    "Usage: /delete <filename>  OR  /delete <target_user> <filename>",
    "Usage: /kick <username> [reason]",
    "Permission denied. Only Operators can delete other users' files.",
    "You do not have permission to execute this command." }

\* the thread of s has written the error reply m to its own socket
ErrorReplied(s, m) ==
  /\ m \in sent'
  /\ m.to = s
  /\ m.msg.tag \in ErrorReplies
  /\ pc[s] \in {"recv", "server_command"}

\* C26: the step in which a session is sent an error reply for an unknown
\* command, an oversized message, an invalid filename, a missing file, a usage
\* error or a permission denial leaves that session's thread at the recv of its
\* read loop with the socket open and its registry entry in place, and changes
\* neither the registry, the operator set, the credential map, the saved state
\* nor the stored files.
C26_ErrorReplyChangesNothing ==
  [][\A s \in Socks : \A m \in sent' :
       ErrorReplied(s, m)
         => /\ pc'[s] = "recv"
            /\ sock'[s] = "open"
            /\ InClients(s) => InClients(s)'
            /\ clients' = clients
            /\ storeVars' = storeVars
            /\ fs'.files = fs.files]_vars

\* bob, registered and at his recv again, has just been told that he may not
\* delete alice's file
C26_BobDenied ==
  /\ [to |-> 2, msg |-> Msg("Permission denied. Only Operators can delete other users' files.")] \in sent
  /\ pc[2] = "recv"
  /\ sock[2] = "open"
  /\ InClients(2)
  /\ handled[2] = 1

(***************************************************************************)
(* A login or a registration of bob on the second connection, after which  *)
(* he chats, next to the session of alice; the console can make bob an     *)
(* operator before he logs in.                                             *)
(***************************************************************************)
LoginOrRegistrationOfBob(s) ==
  \/ Accept(s)
  \/ RecvServerPassword(s, Data(SERVER_PASSWORD), TRUE)
  \/ RecvUsername(s, Data(bob), TRUE)
  \/ RecvPassword(s, Data(pwB), TRUE)
  \/ RecvRegistration(s, Data(pwB \o <<":">> \o pwB), TRUE)
  \/ \E ok \in BOOLEAN : SaveCredentials(s, ok)
  \/ RegisterSession(s)
  \/ \E ok \in BOOLEAN : SendWelcome(s, ok)
  \/ \E ok \in BOOLEAN : SendOperatorNotice(s, ok)

NextJoin ==
  \/ \E s \in Socks :
       \/ LoginOrRegistrationOfBob(s)
       \/ \E line \in ChatLines, ok \in BOOLEAN : ChatMessage(s, line, ok)
       \/ BroadcastStep(s)
       \/ ReadLoopEnds(s)
       \/ Cleanup(s)
       \/ CloseSocket(s)
  \/ ConsoleOpCommand(OP \o <<SP>> \o bob)
  \/ \E ok \in BOOLEAN : ConsoleOpSaved(ok)

SpecJoin == InitOffline /\ [][NextJoin]_vars

JoinNotice(s) == MsgU("has joined the chat!", username[s])

\* list(clients.keys()) without the socket of s
OthersOf(s) == SelectSeq(ClientKeys, LAMBDA c : c # s)

\* C27: the connection is inserted by the login task before the welcome line;
\* the join broadcast is called for a connection that is in the registry, with
\* that connection as the excluded socket; its snapshot is every other
\* registered connection, each send of the notice goes to the next connection
\* of the snapshot and never to the joiner; the read loop starts only when that
\* broadcast has returned; and a chat broadcast of the connection is started
\* only by its read loop.
C27_InsertNotifyThenRead ==
  [][\A s \in Socks :
       /\ (~InClients(s) /\ InClients(s)')
            => /\ pc[s] = "register_session" /\ pc'[s] = "welcome"
               /\ login_successful[s]
               /\ bc[s] = NoBroadcast
       /\ (bc[s].msg.tag # "has joined the chat!" /\ bc'[s].msg.tag = "has joined the chat!")
            => /\ pc[s] \in {"welcome", "op_notice"}
               /\ InClients(s) /\ InClients(s)'
               /\ bc'[s] = [NoBroadcast EXCEPT !.msg = JoinNotice(s), !.sender = s,
                                               !.ret = "recv"]
       /\ (bc[s].msg = JoinNotice(s) /\ pc[s] = "broadcast" /\ pc'[s] # "broadcast")
            => \/ pc'[s] = "broadcast_send" /\ bc'[s].todo = OthersOf(s) /\ OthersOf(s) # <<>>
               \/ pc'[s] = "recv" /\ OthersOf(s) = <<>>
       /\ (bc[s].msg = JoinNotice(s) /\ pc[s] = "broadcast_send" /\ bc'[s] # bc[s]
           /\ bc[s].todo # <<>>)
            => /\ Head(bc[s].todo) # s
               /\ sent' \subseteq Sent(Head(bc[s].todo), JoinNotice(s))
               /\ pc'[s] = "broadcast_send"
                    => /\ bc'[s].todo = Tail(bc[s].todo)
                       /\ Range(bc'[s].delivered) \cup Range(bc'[s].failed)
                            = Range(bc[s].delivered) \cup Range(bc[s].failed)
                                \cup {Head(bc[s].todo)}
       /\ (~InReadLoop(s) /\ InReadLoop(s)')
            => /\ bc[s].msg = JoinNotice(s)
               /\ pc'[s] = "recv"
               /\ handled[s] = 0
               /\ pc[s] = "broadcast_send" => Len(bc[s].todo) <= 1
       /\ (bc[s].msg.tag # "chat" /\ bc'[s].msg.tag = "chat")
            => /\ pc[s] = "recv"
               /\ InReadLoop(s)
               /\ bc'[s].msg.user = username[s]
       /\ \A m \in sent' :
            (m.msg.tag = "has joined the chat!" /\ m.msg.user = username[s]) => m.to # s]_vars

\* bob, who registered on the second connection, is in his read loop and his
\* chat line is being written to alice, who is still registered
C27_BobChatsAfterJoining ==
  /\ Len(trace[2]) = 3
  /\ trace[2][3].st = "AwaitRegistrationPasswordPair"
  /\ InClients(2) /\ InClients(1)
  /\ handled[2] = 1
  /\ sent = Sent(1, MsgUT("chat", bob, <<"h","i">>))

(***************************************************************************)
(* The read timeout of a connection's socket: what the last settimeout     *)
(* call of handle_login on the path recorded in trace[s] has set.          *)
(***************************************************************************)
NoTimeout == 0

\* variant: the registration path leaves the 60 seconds in place
TimeoutAfter_RegistrationKeepsIt(st) ==
  IF st = "AwaitPassword" THEN NoTimeout ELSE 60

\* the timeout in force when handle_login has left state st for the next one:
\* settimeout(60) before the username is read, which also covers the read of
\* the password or of the registration pair, settimeout(None) after either
TimeoutAfter(st) ==
  IF st \in {"AwaitServerPassword", "AwaitUsername"} THEN 60 ELSE NoTimeout

\* a new socket has no timeout, settimeout(30) precedes the first read, and
\* every return and the finally clause of handle_login end with settimeout(None)
gettimeout(s) ==
  IF trace[s] # <<>> THEN TimeoutAfter(trace[s][Len(trace[s])].st)
  ELSE IF pc[s] = "AwaitServerPassword" THEN 30
  ELSE NoTimeout

\* C28: a connection whose read loop runs has no read timeout, whichever path
\* of handle_login started the loop, and a connection that waits for a line of
\* the login phase has one.
C28_ReadLoopHasNoTimeout ==
  \A s \in Socks :
    /\ InReadLoop(s)
         => /\ gettimeout(s) = NoTimeout
            /\ Len(trace[s]) = 3
            /\ trace[s][3].st \in {"AwaitPassword", "AwaitRegistrationPasswordPair"}
    /\ pc[s] \in LoginReads => gettimeout(s) \in {30, 60}

\* bob has registered on the second connection and his read loop waits for a
\* line, with no timeout on the socket
C28_BobRegisteredAndReading ==
  /\ pc[2] = "recv"
  /\ sock[2] = "open"
  /\ InClients(2)
  /\ Len(trace[2]) = 3
  /\ trace[2][3].st = "AwaitRegistrationPasswordPair"
  /\ gettimeout(2) = NoTimeout

(***************************************************************************)
(* Two chat lines of one session.  alice sends the line a and then, as the  *)
(* line after the last of her MaxLines lines, the line b, while bob chats   *)
(* and any session can leave.                                               *)
(***************************************************************************)
\* the peer's next chat line, read by the loop once the lines before it were
\* handled
ChatNext(s, line, ok) ==
  /\ CanRecv(s)
  /\ handled[s] = MaxLines
  /\ handled' = [handled EXCEPT ![s] = @ + 1]
  /\ ChatReceived(s, Received1(line), ok)
  /\ inbox' = [inbox EXCEPT ![s] = Remaining(line)]
  /\ UNCHANGED receiver

m1 == <<"a">>
m2 == <<"b">>

NextOrder ==
  \/ \E ok \in BOOLEAN : ChatMessage(1, m1, ok)
  \/ \E ok \in BOOLEAN : ChatNext(1, m2, ok)
  \/ \E line \in ChatLines, ok \in BOOLEAN : ChatMessage(2, line, ok)
  \/ \E t \in Tasks : BroadcastStep(t)
  \/ \E s \in Socks :
       \/ ReadLoopEnds(s)
       \/ Cleanup(s)
       \/ CloseSocket(s)

SpecOrder == InitThree /\ [][NextOrder]_vars

\* the chat message of alice with this text has just been written to x
Delivered(text, x) == [to |-> x, msg |-> MsgUT("chat", alice, text)] \in sent

\* C29: alice sends the chat line m1 and afterwards the chat line m2; once m2
\* has been written to another session, m1 is never written to that session
\* again, whatever the other sessions broadcast in between.
C29_SenderOrderKept ==
  \A x \in {2, 3} : [](Delivered(m2, x) => [](~Delivered(m1, x)))

\* m2 is being written to carol, who is still registered with her socket open
\* and so was sent m1 as well, after bob's own line went out
C29_CarolGotBoth ==
  /\ Delivered(m2, 3)
  /\ handled[1] = MaxLines + 1
  /\ InClients(3) /\ sock[3] = "open"
  /\ InClients(2) /\ handled[2] = 1

(***************************************************************************)
(* Every writer of the registry next to a task that holds the lock over    *)
(* several steps: a login, disconnects, a kick by alice and by the         *)
(* console, broadcasts that reap, and /stop and /restart of alice, whose   *)
(* warning broadcast runs inside the lock.                                 *)
(***************************************************************************)
LockLines == StopLines \cup { KICK \o <<SP>> \o bob }

NextLock ==
  \/ \E s \in Socks :
       \/ LoginOfBob(s)
       \/ \E line \in LockLines, ok \in BOOLEAN : OperatorCommand(s, line, ok)
       \/ \E ok \in BOOLEAN : ServerCommand(s, ok)
       \/ StartTimer(s)
       \/ ReadLoopEnds(s)
       \/ Cleanup(s)
       \/ CloseSocket(s)
  \/ \E t \in Tasks : BroadcastStep(t)
  \/ \E line \in ConsoleKickLines, ok \in BOOLEAN : ConsoleKick(line, ok)
  \/ TimerStep

SpecLock == InitStop /\ [][NextLock]_vars

\* task t takes this step
Acts(t) == pc'[t] # pc[t] \/ bc'[t] # bc[t] \/ handled'[t] # handled[t]

\* os.execv: the process and its registry are replaced
ProcessReplaced ==
  /\ pc[TimerThread] = "closing"
  /\ frame[TimerThread].cmd = RESTART
  /\ pc'[TimerThread] = "idle"

\* C30: unless the process is replaced, a step that changes the registry is
\* the step of one task, taken while no other task holds the lock; the
\* snapshot of a broadcast and of a shutdown is the list of registered handles,
\* taken in such a step too; and the list a broadcast iterates over is its own
\* copy: it shrinks by the handle just served and is not changed by what other
\* tasks do to the registry.
C30_RegistryUnderLock ==
  [][ProcessReplaced \/
     /\ clients' # clients
          => \E t \in Tasks :
               /\ Acts(t)
               /\ lock \in {NoTask, t}
               /\ \A u \in Tasks \ {t} : ~Acts(u)
     /\ \A t \in Tasks :
          /\ (pc[t] = "broadcast" /\ pc'[t] # "broadcast")
               => /\ lock \in {NoTask, t}
                  /\ LET current_clients == SelectSeq(ClientKeys, LAMBDA c : c # bc[t].sender)
                     IN \/ bc'[t].todo = current_clients /\ pc'[t] = "broadcast_send"
                        \/ current_clients = <<>> /\ pc'[t] = bc[t].ret
          /\ (pc[t] = "broadcast_send" /\ pc'[t] = "broadcast_send")
               => \/ bc'[t].todo = bc[t].todo
                  \/ bc[t].todo # <<>> /\ bc'[t].todo = Tail(bc[t].todo)
          /\ (pc[t] = "broadcast_send" /\ clients' # clients /\ pc'[t] = "broadcast_send")
               => bc'[t] = bc[t]
     /\ (pc[TimerThread] = "idle" /\ pc'[TimerThread] = "closing")
          => /\ lock \in {NoTask, TimerThread}
             /\ bc'[TimerThread].todo = ClientKeys
             /\ clients' = <<>>]_vars

\* bob's login has inserted his connection and waits for the lock, which alice
\* holds while her warning broadcast runs
C30_BobWaitsForTheLock ==
  /\ lock = 1
  /\ bc[1].msg.tag \in Warnings
  /\ InClients(2)
  /\ pc[2] = "welcome"

(***************************************************************************)
(* The receiver thread of the client (src/JAPIRC_TUI.client.py): the       *)
(* connection is a byte stream, a recv returns any non-empty prefix of     *)
(* what has arrived, up to the size asked for.                             *)
(***************************************************************************)
serverState == <<clients, user_credentials, ops, saved_credentials, saved_ops,
                 allow_registration, sock, sent, pc, username,
                 login_successful, bc, frame, fs, wire, server_socket, timer, lock,
                 handled, trace, inbox>>

FILE_TRANSFER == <<"F","I","L","E","_","T","R","A","N","S","F","E","R",":">>
FILE_LIST == <<"F","I","L","E","_","L","I","S","T",":">>

StartsWith(text, prefix) ==
  Len(text) >= Len(prefix) /\ SubSeq(text, 1, Len(prefix)) = prefix

Min(a, b) == IF a <= b THEN a ELSE b

DigitChars == <<"0","1","2","3","4","5","6","7","8","9">>

\* f"{file_size}"
RECURSIVE Decimal(_)
Decimal(n) ==
  IF n < 10 THEN <<DigitChars[n + 1]>>
  ELSE Decimal(n \div 10) \o <<DigitChars[(n % 10) + 1]>>

RECURSIVE DigitsValue(_)
DigitsValue(ds) ==
  IF ds = <<>> THEN 0
  ELSE 10 * DigitsValue(SubSeq(ds, 1, Len(ds) - 1))
         + (CHOOSE v \in 0..9 : DigitChars[v + 1] = ds[Len(ds)])

\* int(file_size_str): surrounding whitespace is ignored; -1 stands for the
\* ValueError raised for anything but decimal digits (signs and underscores do
\* not occur in the texts of this model)
int(file_size_str) ==
  LET ds == Strip(file_size_str)
  IN IF ds # <<>> /\ \A i \in 1..Len(ds) : ds[i] \in Digits
     THEN DigitsValue(ds) ELSE -1

\* handle_download: header = f"FILE_TRANSFER:{filename}:{file_size}"
TransferHeader(filename, file_size) ==
  FILE_TRANSFER \o filename \o <<":">> \o Decimal(file_size)

\* message.splitlines(), and the lines that are not empty
NonEmptyLines(message) == SelectSeq(Split(message, "\n"), LAMBDA line : line # <<>>)

\* the names of one line of a FILE_LIST message: split at ';', stripped, the
\* empty ones left out
NamesOn(line) ==
  SelectSeq([i \in 1..Len(Split(line, ";")) |-> Strip(Split(line, ";")[i])],
            LAMBDA fname : fname # <<>>)

RECURSIVE NamesOnLines(_)
NamesOnLines(extra_lines) ==
  IF extra_lines = <<>> THEN <<>>
  ELSE NamesOn(Strip(Head(extra_lines))) \o NamesOnLines(Tail(extra_lines))

\* the FILE_LIST branch of receive_messages_thread: the username and the names
\* it hands to add_message for one read
file_list_shown(message_bytes) ==
  LET lines_bytes == SplitMax(message_bytes, "\n", 1)
      potential_header_line_bytes == Strip(lines_bytes[1])
      remaining_bytes == IF Len(lines_bytes) > 1 THEN lines_bytes[2] ELSE <<>>
      parts == SplitMax(Strip(potential_header_line_bytes), ":", 2)
      payload == Strip(parts[3])
  IN [username |-> Strip(parts[2]),
      names |-> (IF payload # <<>> THEN NamesOn(payload) ELSE <<>>)
                  \o NamesOnLines(Split(remaining_bytes, "\n"))]

ClientRecvSize == 2048
ChunkSize == 4096

\* the server has written the header of a download, the contents of the file
\* and then a chat line, and all of it has reached the client's machine
TransferWritten(filename, payload, rest) ==
  /\ receiver.pc = "off"
  /\ LET header == TransferHeader(filename, Len(payload))
     IN receiver' = [NoReceiver EXCEPT !.pc = "recv",
                                       !.stream = header \o payload \o rest,
                                       !.header = header,
                                       !.payload = payload,
                                       !.rest = rest]
  /\ UNCHANGED serverState

\* one pass of the loop of receive_messages_thread, whose recv returns n bytes
ClientRecv(n) ==
  /\ receiver.pc = "recv"
  /\ n \in 1..Min(ClientRecvSize, Len(receiver.stream))
  /\ LET message_bytes == SubSeq(receiver.stream, 1, n)
         lines_bytes == SplitMax(message_bytes, "\n", 1)
         potential_header_line_bytes == Strip(lines_bytes[1])
         parts == SplitMax(potential_header_line_bytes, ":", 2)
         file_size == IF Len(parts) = 3 THEN int(parts[3]) ELSE -1
         is_file_transfer ==
           StartsWith(potential_header_line_bytes, FILE_TRANSFER) /\ file_size >= 0
         is_file_list ==
           /\ StartsWith(potential_header_line_bytes, FILE_LIST)
           /\ Len(parts) = 3
         read == [receiver EXCEPT
                    !.stream = SubSeq(receiver.stream, n + 1, Len(receiver.stream)),
                    !.lines = @ \o message_bytes,
                    !.first = IF receiver.lines = <<>> THEN n ELSE @]
     IN receiver' =
          IF is_file_transfer
          THEN \* handle_received_file opens the file for writing; with nothing
               \* to read it returns at once; what came with the header
               \* (remaining_bytes) is dropped
               [read EXCEPT !.pc = IF file_size = 0 THEN "recv" ELSE "file",
                            !.file_size = file_size,
                            !.bytes_received = 0,
                            !.saved = <<>>]
          ELSE IF is_file_list
          THEN [read EXCEPT !.listed = Append(@, file_list_shown(message_bytes))]
          ELSE [read EXCEPT !.shown = @ \o NonEmptyLines(message_bytes)]
  /\ UNCHANGED serverState

\* one pass of the loop of handle_received_file, whose recv returns n bytes
ClientRecvChunk(n) ==
  /\ receiver.pc = "file"
  /\ LET chunk_size == Min(ChunkSize, receiver.file_size - receiver.bytes_received)
     IN /\ n \in 1..Min(chunk_size, Len(receiver.stream))
        /\ receiver' =
             [receiver EXCEPT
                !.stream = SubSeq(receiver.stream, n + 1, Len(receiver.stream)),
                !.saved = @ \o SubSeq(receiver.stream, 1, n),
                !.bytes_received = @ + n,
                !.pc = IF receiver.bytes_received + n = receiver.file_size
                       THEN "recv" ELSE "file"]
  /\ UNCHANGED serverState

\* the files a download sends, and the chat line that follows
Payloads == { <<"p","q">>, <<"\n","q">>, <<"7","q">> }
hi == <<"h","i">>

StreamLen == Len(TransferHeader(<<"n">>, Len(hi)) \o hi \o hi)

\* the reads of a run: the first one holds at least the FILE_TRANSFER: prefix (a
\* shorter one is shown as chat and is no read of a header)
ReadOfLines(n) ==
  /\ receiver.lines = <<>> => n >= Len(FILE_TRANSFER)
  /\ ClientRecv(n)

NextClient ==
  \/ \E payload \in Payloads : TransferWritten(<<"n">>, payload, hi)
  \/ \E n \in 1..StreamLen : ReadOfLines(n)
  \/ \E n \in 1..StreamLen : ClientRecvChunk(n)

SpecClient == Init /\ [][NextClient]_vars

\* C31: once the receiver thread has read the FILE_TRANSFER header (its first
\* read held at least the whole header) and is back at line parsing, the file it
\* saved holds exactly the bytes that followed the header, and everything the
\* line parser has taken or has still to read is the header and what followed
\* the file.
C31_PayloadThenLines ==
  (receiver.pc = "recv" /\ receiver.first >= Len(receiver.header)
     /\ receiver.first > 0)
    => /\ receiver.saved = receiver.payload
       /\ receiver.lines \o receiver.stream = receiver.header \o receiver.rest

\* the header arrived alone and the file was read to its end
C31_HeaderAloneThenFile ==
  /\ receiver.pc = "recv"
  /\ receiver.first = Len(receiver.header)
  /\ receiver.first > 0
  /\ receiver.saved = receiver.payload
  /\ receiver.stream = <<>>
  /\ receiver.shown = <<receiver.rest>>

(***************************************************************************)
(* Claims about concurrent logins and commands.                            *)
(***************************************************************************)

\* C32: once a username has a credential record, no step of handle_login changes
\* the hash stored for it: a second registration of the name does not replace
\* the hash stored by the first.
C32_StoredHashKept ==
  [][\A u \in DOMAIN user_credentials :
       /\ u \in DOMAIN user_credentials'
       /\ user_credentials'[u] = user_credentials[u]]_vars

\* two operators, alice and bob, each of whom issues one operator command
InitTwoOps ==
  /\ EstablishedWith(bob, pwB, <<alice, bob>>)
  /\ fs = InitFS

LinesOfAlice == { DEOP \o <<SP>> \o bob }
LinesOfBob == { DEOP \o <<SP>> \o alice, KICK \o <<SP>> \o alice, STOP }

NextTwoOps ==
  \/ \E line \in LinesOfAlice, ok \in BOOLEAN : OperatorCommand(1, line, ok)
  \/ \E line \in LinesOfBob, ok \in BOOLEAN : OperatorCommand(2, line, ok)
  \/ \E s \in Socks, ok \in BOOLEAN : ServerCommand(s, ok)
  \/ \E s \in Socks : StartTimer(s)
  \/ \E s \in Socks : SaveOps(s)
  \/ \E s \in Socks, ok \in BOOLEAN : OpReply(s, ok)
  \/ \E s \in Socks, ok \in BOOLEAN : OpNotify(s, ok)
  \/ \E s \in Socks : BroadcastStep(s)
  \/ \E s \in Socks : ReadLoopEnds(s)
  \/ \E s \in Socks : Cleanup(s)
  \/ \E s \in Socks : CloseSocket(s)

SpecTwoOps == InitTwoOps /\ [][NextTwoOps]_vars

\* C33: a step of handle_server_command that removes a session, changes the
\* operator list or starts the stop of the server is taken for an issuer who is
\* an operator when the step is taken.
C33_IssuerIsOperatorWhenApplied ==
  [][\A s \in Socks :
       \/ /\ pc[s] = "server_command"
          /\ pc'[s] # "server_command"
          /\ (clients' # clients \/ ops' # ops \/ lock' = s)
       \/ /\ pc[s] = "start_timer"
          /\ timer' # timer
       => is_op(username[s])]_vars

\* alice and the console both kick carol, sessions end by themselves, broadcasts
\* reap the sessions they cannot reach, and the console stops the server
NextDepart ==
  \/ KickStep(1, RemoteKickLines)
  \/ \E line \in { KICK \o <<SP>> \o carol }, ok \in BOOLEAN : ConsoleKick(line, ok)
  \/ \E s \in Socks :
       \/ ReadLoopEnds(s)
       \/ Cleanup(s)
       \/ CloseSocket(s)
  \/ \E t \in Tasks : BroadcastStep(t)
  \/ ConsoleStop(STOP)
  \/ ConsoleStartTimer
  \/ TimerFires
  \/ \E ok \in BOOLEAN : ShutdownClose(ok)
  \/ ShutdownFinish

SpecDepart == InitThree /\ [][NextDepart]_vars

Departures == {"has left the chat.", "was kicked"}

\* C34: a departure notice ('has left the chat' or 'was kicked') is started only
\* by the step that removes the registry entry of the user it names, and that
\* step removes this one entry; so an entry is removed by one task, and a
\* session that a kick, a reaping or the shutdown removed gets no second notice
\* from its read loop or from a second kick.
C34_OneNoticePerRemoval ==
  [][\A t \in Tasks :
       (bc'[t].msg # bc[t].msg /\ bc'[t].msg.tag \in Departures)
         => \E i \in DOMAIN clients :
              /\ clients[i].user = bc'[t].msg.user
              /\ clients[i].sock \notin ClientSockets'
              /\ clients' = Popped(clients, clients[i].sock)]_vars

\* alice kicked carol, the console's kick of carol then found nobody, and carol's
\* read loop has ended without a notice of its own
C34_CarolKickedOnce ==
  /\ frame[1].target = carol
  /\ bc[1].msg.tag = "was kicked"
  /\ handled[Console] = 1
  /\ pc[Console] = "console"
  /\ frame[Console] = NoFrame
  /\ timer = <<>>
  /\ pc[3] = "done"
  /\ bc[3] = NoBroadcast

(***************************************************************************)
(* The lock.  The threads of the server take their steps whenever they     *)
(* can: a step that needs no input from a peer is taken if it stays        *)
(* possible (socket operations return).                                    *)
(***************************************************************************)
\* bob logs in while the operator alice stops the server or kicks him
NextLockWait ==
  \/ LoginOfBob(2)
  \/ \E line \in { STOP, KICK \o <<SP>> \o bob }, ok \in BOOLEAN : OperatorCommand(1, line, ok)
  \/ \E ok \in BOOLEAN : ServerCommand(1, ok)
  \/ StartTimer(1)
  \/ \E s \in Socks :
       \/ ReadLoopEnds(s)
       \/ Cleanup(s)
       \/ CloseSocket(s)
  \/ \E t \in Tasks : BroadcastStep(t)
  \/ TimerFires
  \/ \E ok \in BOOLEAN : ShutdownClose(ok)
  \/ ShutdownFinish

SpecLockFair ==
  /\ InitStop /\ [][NextLockWait]_vars
  /\ \A s \in TwoConnections : WF_vars(ServerStep(s)) /\ WF_vars(BroadcastStep(s))
  /\ WF_vars(BroadcastStep(Console))
  /\ WF_vars(BroadcastStep(TimerThread))
  /\ WF_vars(TimerStep)

AllTasks == TwoConnections \cup {Console, TimerThread}

\* task t is at a 'with lock:' statement
RequestsLock(t) ==
  \/ pc[t] \in {"cleanup", "server_command", "broadcast", "register_session"}
  \/ pc[t] = "broadcast_send" /\ bc[t].todo = <<>>
  \/ t = TimerThread /\ pc[t] = "idle" /\ timer # <<>>

\* the holder of the lock is inside /stop or /restart: in its warning broadcast,
\* or about to start the timer and leave the locked block
HolderStep ==
  \E s \in TwoConnections : lock = s /\ (BroadcastStep(s) \/ StartTimer(s))

\* C35: the holder of the lock can always take its next step, also where that
\* step takes the lock again (so the tasks never all wait for the lock), and a
\* task at a 'with lock:' statement gets past it (or the process is replaced by
\* the restart).
C35_LockDeadlockFree ==
  /\ [](lock # NoTask => ENABLED HolderStep)
  /\ \A t \in AllTasks : RequestsLock(t) ~> ~RequestsLock(t)

\* bob's login waits at 'with lock:' while alice holds the lock inside /stop and
\* is about to take it again for the snapshot of her broadcast
C35_BobWaitsAliceReenters ==
  /\ lock = 1
  /\ pc[1] = "broadcast"
  /\ pc[2] = "register_session"

(***************************************************************************)
(* Failed logins.                                                          *)
(***************************************************************************)
AwaitStates == {"AwaitServerPassword", "AwaitUsername", "AwaitPassword",
                "AwaitRegistrationPasswordPair"}

\* a step of handle_login on connection s that prompts for the next input or
\* ends the attempt with login_successful unset
FailingLoginStep(s) ==
  /\ pc[s] \in AwaitStates \cup {"unconnected"}
  /\ pc'[s] \in AwaitStates \cup {"done"}
  /\ pc'[s] # pc[s]
  /\ ~login_successful'[s]

\* C36: the steps of a login attempt that fails (and the prompts that lead to
\* the failure) leave the registry, the credential map, the operator list and
\* the two files as they are, start no broadcast and write to no connection
\* but the attempt's own.
C36_FailedLoginChangesNothing ==
  [][\A s \in Socks :
       FailingLoginStep(s)
         => /\ clients' = clients
            /\ user_credentials' = user_credentials
            /\ ops' = ops
            /\ saved_credentials' = saved_credentials
            /\ saved_ops' = saved_ops
            /\ fs' = fs
            /\ bc' = bc
            /\ \A m \in sent' : m.to = s]_vars

\* the second connection was told that its password is wrong, while alice is
\* online on the first
C36_WrongPasswordRejected ==
  /\ pc[2] = "done"
  /\ ~login_successful[2]
  /\ sent = Sent(2, Msg("Incorrect password."))
  /\ InClients(1)

(***************************************************************************)
(* A registration and a later login.  Three connections name bob: the      *)
(* first two register him, with the passwords q and pw, the third logs in. *)
(***************************************************************************)
InitRelogin ==
  /\ user_credentials = (alice :> hash_password(pwA))
  /\ saved_credentials = user_credentials
  /\ ops = <<alice>>
  /\ saved_ops = ops
  /\ allow_registration = TRUE
  /\ clients = <<>>
  /\ sock = [s \in ThreeConnections |-> "unconnected"]
  /\ sent = {}
  /\ pc = [t \in Tasks |-> IF t \in Socks THEN "unconnected"
                           ELSE IF t = Console THEN "console" ELSE "idle"]
  /\ username = [s \in Socks |-> <<>>]
  /\ login_successful = [s \in Socks |-> FALSE]
  /\ bc = [t \in Tasks |-> NoBroadcast]
  /\ frame = [t \in Tasks |-> NoFrame]
  /\ fs = InitFS
  /\ wire = [s \in Socks |-> NoTransfer]
  /\ server_socket = "listening"
  /\ timer = <<>>
  /\ lock = NoTask
  /\ handled = [t \in Tasks |-> 0]
  /\ trace = [s \in Socks |-> <<>>]
  /\ inbox = [s \in Socks |-> <<>>]
  /\ receiver = NoReceiver

\* what connection s sends when it is asked for a registration pair, and for a
\* password
PairsOf(s) ==
  IF s = 1 THEN { pwB \o <<":">> \o pwB }
  ELSE IF s = 2 THEN { <<SP>> \o pwA \o <<":">> \o pwA \o <<"\n">> }
  ELSE {}

PasswordsOf(s) ==
  IF s = 3 THEN { pwB \o <<"\n">>, <<SP>> \o pwB, pwA } ELSE {}

NextRelogin ==
  \E s \in Socks :
    \/ Accept(s)
    \/ RecvServerPassword(s, Data(SERVER_PASSWORD), TRUE)
    \/ RecvUsername(s, Data(bob), TRUE)
    \/ \E line \in PairsOf(s) : RecvRegistration(s, Data(line), TRUE)
    \/ \E line \in PasswordsOf(s), ok \in BOOLEAN : RecvPassword(s, Data(line), ok)
    \/ \E ok \in BOOLEAN : SaveCredentials(s, ok)
    \/ RegisterSession(s)
    \/ \E ok \in BOOLEAN : SendWelcome(s, ok)
    \/ BroadcastStep(s)
    \/ ReadLoopEnds(s)
    \/ Cleanup(s)
    \/ CloseSocket(s)

SpecRelogin == InitRelogin /\ [][NextRelogin]_vars

\* connection s registered bob and its session has ended
RegisteredAndEnded(s) ==
  /\ pc[s] = "done"
  /\ login_successful[s]

\* C37: once the registration of bob with the password q (connection 1) was
\* accepted and that session has ended, the password test of a login as bob
\* compares with the hash of q, and the login gets past the test only with a
\* password that is q after trimming.
C37_LoginIffRegisteredPassword ==
  [][(RegisteredAndEnded(1) /\ pc[3] = "AwaitPassword" /\ pc'[3] # "AwaitPassword")
       => /\ user_credentials[bob] = hash_password(pwB)
          /\ pc'[3] = "register_session"
               => Strip(trace'[3][Len(trace'[3])].line) = pwB]_vars

\* the same with no second registration of bob: the third connection logs in
\* when connection 1 is the only one that registered
C37_AfterOneRegistration ==
  [][(RegisteredAndEnded(1) /\ pc[2] \in {"unconnected", "AwaitPassword"}
        /\ pc[3] = "AwaitPassword" /\ pc'[3] # "AwaitPassword")
       => /\ user_credentials[bob] = hash_password(pwB)
          /\ pc'[3] = "register_session"
               => Strip(trace'[3][Len(trace'[3])].line) = pwB]_vars

(***************************************************************************)
(* /op and /deop from two operator sessions and from the console.          *)
(***************************************************************************)
InitOpDeop ==
  /\ \E operators \in { <<alice>>, <<alice, bob>>, <<bob, alice>> } :
       EstablishedWith(bob, pwB, operators)
  /\ fs = InitFS

OpDeop(u) == { OP \o <<SP>> \o u, DEOP \o <<SP>> \o u }

NextOpDeop ==
  \/ \E line \in OpDeop(bob), ok \in BOOLEAN : OperatorCommand(1, line, ok)
  \/ \E line \in OpDeop(alice), ok \in BOOLEAN : OperatorCommand(2, line, ok)
  \/ \E s \in Socks, ok \in BOOLEAN : ServerCommand(s, ok)
  \/ \E s \in Socks : SaveOps(s)
  \/ \E s \in Socks, ok \in BOOLEAN : OpReply(s, ok)
  \/ \E s \in Socks, ok \in BOOLEAN : OpNotify(s, ok)
  \/ \E line \in OpDeop(alice) \cup OpDeop(bob) : ConsoleOpCommand(line)
  \/ \E ok \in BOOLEAN : ConsoleOpSaved(ok)

SpecOpDeop == InitOpDeop /\ [][NextOpDeop]_vars

\* C38: the operator list never holds a name twice, and the step of an accepted
\* /deop u (the list loses u) leaves a list without u.
C38_OpsHoldsNoDuplicate ==
  /\ [](NoDuplicates(ops))
  /\ [][\A u \in {alice, bob} :
          (u \in Range(ops) /\ ops' = Removing(ops, u)) => u \notin Range(ops')]_vars

\* alice's /deop bob was accepted, after the console's command, while the file
\* still lists bob: the list has lost him
C38_BobDeoppedAfterConsoleOp ==
  /\ pc[1] = "save_ops"
  /\ frame[1].cmd = DEOP
  /\ frame[1].target = bob
  /\ bob \notin Range(ops)
  /\ handled[Console] = 1
  /\ saved_ops = <<alice, bob>>
  /\ LoggedIn(alice, pwA, {}) = trace[1]

(***************************************************************************)
(* The file list: handle_list_files builds the line, the clients parse it. *)
(***************************************************************************)
\* file_list_message_prefix + ";".join(files)
FileListLine(target_username, files) ==
  FILE_LIST \o target_username \o <<":">> \o JoinWith(files, ";")

\* the FILE_LIST branch of the GUI client's receive_messages, for one line
gui_file_list(msg_line) ==
  LET parts == SplitMax(Strip(msg_line), ":", 2)
      filenames_str == parts[3]
  IN [username |-> parts[2],
      names |-> SelectSeq(Split(filenames_str, ";"), LAMBDA fn : fn # <<>>)]

\* names that handle_upload accepts, and the listings of a directory that holds
\* up to two of them
UploadedNames ==
  { name \in { <<"a">>, <<"b">>, <<"a", ";", "b">> } : ~invalid_filename(name) }

Listings ==
  {<<>>} \cup { <<x>> : x \in UploadedNames }
         \cup { p \in UploadedNames \X UploadedNames : p[1] # p[2] }

\* the server has answered /files bob and the line has reached the client
ListWritten(target_username, files) ==
  /\ receiver.pc = "off"
  /\ LET line == FileListLine(target_username, files)
     IN receiver' = [NoReceiver EXCEPT !.pc = "recv",
                                       !.stream = line,
                                       !.header = line,
                                       !.files = files]
  /\ UNCHANGED serverState

NextList ==
  \/ \E files \in Listings : ListWritten(bob, files)
  \/ \E n \in 1..StreamLen : ReadOfLines(n)

SpecList == Init /\ [][NextList]_vars

\* C39: the FILE_LIST line of a directory listing, read in one piece, is parsed
\* by both clients into the username it was built for and exactly the names of
\* the listing.
C39_ListRoundTrip ==
  (receiver.first = Len(receiver.header) /\ StartsWith(receiver.header, FILE_LIST))
    => /\ Len(receiver.listed) = 1
       /\ receiver.listed[1].username = bob
       /\ Range(receiver.listed[1].names) = Range(receiver.files)
       /\ gui_file_list(receiver.header).username = bob
       /\ Range(gui_file_list(receiver.header).names) = Range(receiver.files)

\* the same for the listings whose names hold no ';'
C39_RoundTripWithoutSeparator ==
  (/\ receiver.first = Len(receiver.header)
   /\ StartsWith(receiver.header, FILE_LIST)
   /\ \A i \in DOMAIN receiver.files : ";" \notin Range(receiver.files[i]))
    => /\ Len(receiver.listed) = 1
       /\ receiver.listed[1].username = bob
       /\ Range(receiver.listed[1].names) = Range(receiver.files)
       /\ gui_file_list(receiver.header).username = bob
       /\ Range(gui_file_list(receiver.header).names) = Range(receiver.files)

====
